---------------------------- MODULE Spec2Model ----------------------------
(***************************************************************************)
(* Ground-station telemetry pipeline of RSX-CANSAT-2026-OB                 *)
(* (src/ground_station_source/gui/rsx_cansat_gui.py).                      *)
(*                                                                         *)
(* Python strings are modelled as sequences of one-character strings, so   *)
(* that strip(), split(), startswith(), the "in" operator, int(), float()  *)
(* and the regular expressions of process_data are computed and not        *)
(* assumed.  Python values carry their type: a record with a field t.      *)
(***************************************************************************)
EXTENDS Integers, Sequences, FiniteSets, TLC

(***************************************************************************)
(* Python str methods                                                      *)
(***************************************************************************)

\* the characters str.strip() removes (the ASCII ones)
WS == {" ", "\t", "\n", "\r"}

Digits == <<"0", "1", "2", "3", "4", "5", "6", "7", "8", "9">>

IsDigit(c) == \E i \in 1..10 : Digits[i] = c

DigitVal(c) == (CHOOSE i \in 1..10 : Digits[i] = c) - 1

RECURSIVE LStrip(_)
LStrip(s) == IF s # <<>> /\ Head(s) \in WS THEN LStrip(Tail(s)) ELSE s

RECURSIVE RStrip(_)
RStrip(s) ==
  IF s # <<>> /\ s[Len(s)] \in WS THEN RStrip(SubSeq(s, 1, Len(s) - 1)) ELSE s

\* str.strip()
Strip(s) == RStrip(LStrip(s))

\* p occurs in s at index i
OccursAt(s, p, i) ==
  /\ i >= 1
  /\ i + Len(p) - 1 <= Len(s)
  /\ \A k \in 1..Len(p) : s[i + k - 1] = p[k]

\* str.startswith(p)
StartsWith(s, p) == OccursAt(s, p, 1)

\* p in s
Contains(s, p) == \E i \in 1..(Len(s) + 1) : OccursAt(s, p, i)

\* str.find(p), 1-based; 0 when p does not occur
Find(s, p) ==
  IF Contains(s, p)
  THEN CHOOSE i \in 1..(Len(s) + 1) :
         OccursAt(s, p, i) /\ \A j \in 1..(i - 1) : ~OccursAt(s, p, j)
  ELSE 0

\* str.split(c) for a one-character separator: never an empty list
RECURSIVE Split(_, _)
Split(s, c) ==
  LET i == Find(s, <<c>>)
  IN  IF i = 0 THEN <<s>>
      ELSE <<SubSeq(s, 1, i - 1)>> \o Split(SubSeq(s, i + 1, Len(s)), c)

\* str.replace(c, r) for a one-character c
RECURSIVE Replace(_, _, _)
Replace(s, c, r) ==
  IF s = <<>> THEN <<>>
  ELSE (IF Head(s) = c THEN r ELSE <<Head(s)>>) \o Replace(Tail(s), c, r)

RECURSIVE NatStr(_)
NatStr(n) ==
  IF n < 10 THEN <<Digits[n + 1]>> ELSE NatStr(n \div 10) \o <<Digits[(n % 10) + 1]>>

\* "%d" % n and str(n) for an int
IntStr(n) == IF n < 0 THEN <<"-">> \o NatStr(0 - n) ELSE NatStr(n)

(***************************************************************************)
(* Python values.  None, int, float and str are told apart by the field t. *)
(* A float is the decimal m * 10^(-e), normalised (no trailing zero in m   *)
(* while e > 0), so that equal floats are equal records.  The inf and nan  *)
(* spellings float() accepts are not among the inputs of the model.        *)
(***************************************************************************)
None == [t |-> "None"]

PyInt(n) == [t |-> "int", v |-> n]

PyStr(s) == [t |-> "str", s |-> s]

RECURSIVE Pow10(_)
Pow10(k) == IF k = 0 THEN 1 ELSE 10 * Pow10(k - 1)

RECURSIVE Normalise(_, _)
Normalise(m, e) ==
  IF e > 0 /\ m % 10 = 0 THEN Normalise(m \div 10, e - 1) ELSE [m |-> m, e |-> e]

PyFloat(m, e) ==
  LET n == Normalise(m, e) IN [t |-> "float", m |-> n.m, e |-> n.e]

\* a run of digits in which single underscores may separate digits
RECURSIVE IsDigitPart(_)
IsDigitPart(s) ==
  /\ s # <<>>
  /\ IsDigit(Head(s))
  /\ \/ Len(s) = 1
     \/ IsDigitPart(Tail(s))
     \/ Len(s) >= 3 /\ s[2] = "_" /\ IsDigitPart(SubSeq(s, 3, Len(s)))

RECURSIVE DigitsVal(_, _)
DigitsVal(s, acc) ==
  IF s = <<>> THEN acc
  ELSE IF Head(s) = "_" THEN DigitsVal(Tail(s), acc)
  ELSE DigitsVal(Tail(s), 10 * acc + DigitVal(Head(s)))

RECURSIVE CountDigits(_)
CountDigits(s) ==
  IF s = <<>> THEN 0
  ELSE (IF Head(s) = "_" THEN 0 ELSE 1) + CountDigits(Tail(s))

HasSign(s) == s # <<>> /\ Head(s) \in {"+", "-"}

Unsigned(s) == IF HasSign(s) THEN Tail(s) ELSE s

SignOf(s) == IF s # <<>> /\ Head(s) = "-" THEN 0 - 1 ELSE 1

\* int(s): [ok |-> FALSE] stands for ValueError
ParseInt(s) ==
  LET b == Strip(s)
      u == Unsigned(b)
  IN  IF IsDigitPart(u)
      THEN [ok |-> TRUE, val |-> PyInt(SignOf(b) * DigitsVal(u, 0))]
      ELSE [ok |-> FALSE]

\* the part of s before the first of the characters in cs (all of s if none)
RECURSIVE Before(_, _)
Before(s, cs) ==
  IF s = <<>> \/ Head(s) \in cs THEN <<>> ELSE <<Head(s)>> \o Before(Tail(s), cs)

\* float(s): [ok |-> FALSE] stands for ValueError
\* the value of sign * ip.fp * 10^x, x given by its digits xu and its sign
FloatValue(sign, ip, fp, has_exp, xsign, xu) ==
  IF /\ ip # <<>> \/ fp # <<>>
     /\ ip = <<>> \/ IsDigitPart(ip)
     /\ fp = <<>> \/ IsDigitPart(fp)
     /\ ~has_exp \/ IsDigitPart(xu)
  THEN [ok |-> TRUE,
        val |-> PyFloat(sign * DigitsVal(ip \o fp, 0)
                          * Pow10(IF has_exp THEN (IF xsign > 0 THEN DigitsVal(xu, 0) ELSE 0)
                                  ELSE 0),
                        CountDigits(fp)
                          + (IF has_exp /\ xsign < 0 THEN DigitsVal(xu, 0) ELSE 0))]
  ELSE [ok |-> FALSE]

\* mant is the text before the exponent mark, rest the mark and what follows
FloatExponent(sign, mant, ip, rest) ==
  FloatValue(sign, ip,
             IF Len(ip) < Len(mant) THEN SubSeq(mant, Len(ip) + 2, Len(mant)) ELSE <<>>,
             rest # <<>>,
             IF rest = <<>> THEN 1 ELSE SignOf(Tail(rest)),
             IF rest = <<>> THEN <<>> ELSE Unsigned(Tail(rest)))

FloatMantissa(sign, u, mant) ==
  FloatExponent(sign, mant, Before(mant, {"."}), SubSeq(u, Len(mant) + 1, Len(u)))

FloatUnsigned(sign, u) == FloatMantissa(sign, u, Before(u, {"e", "E"}))

FloatStripped(b) == FloatUnsigned(SignOf(b), Unsigned(b))

ParseFloat(s) == FloatStripped(Strip(s))

\* str(v) of a value, as TelemetryData.to_dict renders it
FloatStr(v) ==
  LET a  == IF v.m < 0 THEN 0 - v.m ELSE v.m
      ip == a \div Pow10(v.e)
      fr == a % Pow10(v.e)
      fs == NatStr(fr)
      pad == [i \in 1..(v.e - Len(fs)) |-> "0"]
  IN  (IF v.m < 0 THEN <<"-">> ELSE <<>>) \o NatStr(ip) \o <<".">>
        \o (IF v.e = 0 THEN <<"0">> ELSE pad \o fs)

PyStrOf(v) ==
  CASE v.t = "None"  -> <<"N", "o", "n", "e">>
    [] v.t = "int"   -> IntStr(v.v)
    [] v.t = "float" -> FloatStr(v)
    [] v.t = "str"   -> v.s

\* bool(v): what "if v" tests
Truthy(v) ==
  CASE v.t = "None"  -> FALSE
    [] v.t = "int"   -> v.v # 0
    [] v.t = "float" -> v.m # 0
    [] v.t = "str"   -> v.s # <<>>

\* float(v) of a number, as a numpy float array stores it
ToFloat(v) == IF v.t = "int" THEN PyFloat(v.v, 0) ELSE v

\* a - b for numbers: int - int is an int, anything else a float
FloatSub(fa, fb) ==
  LET e == IF fa.e > fb.e THEN fa.e ELSE fb.e
  IN  PyFloat(fa.m * Pow10(e - fa.e) - fb.m * Pow10(e - fb.e), e)

PySub(a, b) ==
  IF a.t = "int" /\ b.t = "int" THEN PyInt(a.v - b.v)
  ELSE FloatSub(ToFloat(a), ToFloat(b))

(***************************************************************************)
(* The regular expressions of process_data.  "." is any character but a    *)
(* newline.                                                                *)
(***************************************************************************)
S_MSG == <<"M", "S", "G", ":">>

\* re.search('MSG:(.+)', s): the leftmost MSG: that a character follows;
\* group(1) runs to the end of the line
SearchMsg(s) ==
  LET hits == {i \in 1..Len(s) :
                 OccursAt(s, S_MSG, i) /\ i + 4 <= Len(s) /\ s[i + 4] # "\n"}
  IN  IF hits = {} THEN [ok |-> FALSE]
      ELSE LET i == CHOOSE h \in hits : \A g \in hits : h <= g
           IN  [ok |-> TRUE,
                group |-> Before(SubSeq(s, i + 4, Len(s)), {"\n"})]

\* re.search('{(.+?)}', s): the leftmost "{" that a "}" closes at least one
\* character later, and the nearest such "}"
SearchBrace(s) ==
  LET closes(i) == {j \in (i + 2)..Len(s) :
                      s[j] = "}" /\ \A k \in (i + 1)..(j - 1) : s[k] # "\n"}
      opens == {i \in 1..Len(s) : s[i] = "{" /\ closes(i) # {}}
  IN  IF opens = {} THEN [ok |-> FALSE]
      ELSE LET i == CHOOSE h \in opens : \A g \in opens : h <= g
               j == CHOOSE h \in closes(i) : \A g \in closes(i) : h <= g
           IN  [ok |-> TRUE, from |-> i, to |-> j,
                group |-> SubSeq(s, i + 1, j - 1)]

\* a substitution that takes the space before each match with the match
RECURSIVE SubBrace_space_taken(_)
SubBrace_space_taken(s) ==
  LET m == SearchBrace(s)
      cut == IF (IF m.from > 1 THEN s[m.from - 1] = " " ELSE FALSE)
             THEN m.from - 2 ELSE m.from - 1
  IN  IF ~m.ok THEN s
      ELSE SubSeq(s, 1, cut) \o SubBrace_space_taken(SubSeq(s, m.to + 1, Len(s)))

\* re.sub(r'{.+?}', '', s): every match removed, left to right
RECURSIVE SubBrace(_)
SubBrace(s) ==
  LET m == SearchBrace(s)
  IN  IF ~m.ok THEN s
      ELSE SubSeq(s, 1, m.from - 1) \o SubBrace(SubSeq(s, m.to + 1, Len(s)))

(***************************************************************************)
(* Sample windows: DynamicPlotter, DynamicPlotter_MultiLine and            *)
(* DynamicPlotter_2d.  The time axis x is kept in units of                 *)
(* 1/(timewindow - 1) second, the unit in which np.linspace(-timewindow,   *)
(* 0, timewindow) is a sequence of integers; the clock is in that unit.    *)
(***************************************************************************)

\* the capacity of every window (self.__graph_time_window, 500 in the
\* program, scaled down)
TimeWindow == 3

Zero == PyFloat(0, 0)

Fill(n, v) == [i \in 1..n |-> v]

\* np.linspace(-timewindow, 0, timewindow)
Linspace(timewindow) == [i \in 1..timewindow |-> 0 - timewindow * (timewindow - i)]

\* an append that evicts the newest sample of a full deque
DequeAppend_newest_evicted(d, v, maxlen) ==
  IF Len(d) >= maxlen THEN Append(SubSeq(d, 1, Len(d) - 1), v) ELSE Append(d, v)

\* deque.append on a deque with maxlen: the oldest sample is evicted
DequeAppend(d, v, maxlen) ==
  IF Len(d) >= maxlen THEN Append(Tail(d), v) ELSE Append(d, v)

\* np.roll(x, -1) followed by x[-1] = x[-2] + time_diff
RollTime(x, time_diff) ==
  LET r == Tail(x) \o <<Head(x)>>
  IN  [r EXCEPT ![Len(r)] = r[Len(r) - 1] + time_diff]

\* a time difference that counts from 0 when there is no last_time
TimeDiff_from_zero(last_time, current_time) ==
  IF Truthy(last_time) THEN current_time - last_time.v ELSE current_time

\* time_diff = (current_time - self.last_time) if self.last_time else 0
TimeDiff(last_time, current_time) ==
  IF Truthy(last_time) THEN current_time - last_time.v ELSE 0

DynamicPlotter_init(timewindow) ==
  [kind |-> "DynamicPlotter", timewindow |-> timewindow, last_time |-> None,
   databuffer |-> Fill(timewindow, Zero),
   x |-> Linspace(timewindow),
   y |-> Fill(timewindow, Zero)]

DynamicPlotter_update_plot(p, new_val, current_time) ==
  LET buf == DequeAppend(p.databuffer, new_val, p.timewindow)
  IN  [p EXCEPT !.last_time = PyInt(current_time),
                !.databuffer = buf,
                !.y = [i \in 1..Len(buf) |-> ToFloat(buf[i])],
                !.x = RollTime(p.x, TimeDiff(p.last_time, current_time))]

DynamicPlotter_reset_plot(p) ==
  [p EXCEPT !.databuffer = Fill(p.timewindow, Zero),
            !.x = Linspace(p.timewindow),
            !.y = Fill(p.timewindow, Zero),
            !.last_time = None]

MultiLine_init(timewindow, num_lines) ==
  [kind |-> "DynamicPlotter_MultiLine", timewindow |-> timewindow,
   num_lines |-> num_lines, last_time |-> None,
   databuffer |-> Fill(num_lines, Fill(timewindow, Zero)),
   x |-> Linspace(timewindow),
   y |-> Fill(num_lines, Fill(timewindow, Zero))]

\* an update that appends a zero to the channels whose value is None
MultiLine_update_plot_none_as_zero(p, new_vals, current_time) ==
  LET buf == [i \in 1..p.num_lines |->
                DequeAppend(p.databuffer[i],
                            IF new_vals[i] # None THEN new_vals[i] ELSE Zero,
                            p.timewindow)]
  IN  [p EXCEPT !.last_time = PyInt(current_time),
                !.databuffer = buf,
                !.y = [i \in 1..p.num_lines |->
                         [k \in 1..Len(buf[i]) |-> ToFloat(buf[i][k])]],
                !.x = RollTime(p.x, TimeDiff(p.last_time, current_time))]

MultiLine_update_plot(p, new_vals, current_time) ==
  LET buf == [i \in 1..p.num_lines |->
                IF new_vals[i] # None
                THEN DequeAppend(p.databuffer[i], new_vals[i], p.timewindow)
                ELSE p.databuffer[i]]
  IN  [p EXCEPT !.last_time = PyInt(current_time),
                !.databuffer = buf,
                !.y = [i \in 1..p.num_lines |->
                         IF new_vals[i] # None
                         THEN [k \in 1..Len(buf[i]) |-> ToFloat(buf[i][k])]
                         ELSE p.y[i]],
                !.x = RollTime(p.x, TimeDiff(p.last_time, current_time))]

MultiLine_reset_plot(p) ==
  [p EXCEPT !.databuffer = Fill(p.num_lines, Fill(p.timewindow, Zero)),
            !.x = Linspace(p.timewindow),
            !.y = Fill(p.num_lines, Fill(p.timewindow, Zero)),
            !.last_time = None]

Plotter2d_init(timewindow, init_x, init_y) ==
  [kind |-> "DynamicPlotter_2d", timewindow |-> timewindow,
   databuffer_x |-> Fill(timewindow, init_x),
   databuffer_y |-> Fill(timewindow, init_y),
   x |-> Fill(timewindow, init_x),
   y |-> Fill(timewindow, init_y)]

Plotter2d_update_plot(p, new_val_x, new_val_y) ==
  LET bx == DequeAppend(p.databuffer_x, new_val_x, p.timewindow)
      by == DequeAppend(p.databuffer_y, new_val_y, p.timewindow)
  IN  [p EXCEPT !.databuffer_x = bx, !.databuffer_y = by,
                !.x = [i \in 1..Len(bx) |-> ToFloat(bx[i])],
                !.y = [i \in 1..Len(by) |-> ToFloat(by[i])]]

\* a reset of the plotter of positions to zeros
Plotter2d_reset_plot_to_zero(p) ==
  [p EXCEPT !.databuffer_x = Fill(p.timewindow, Zero),
            !.databuffer_y = Fill(p.timewindow, Zero),
            !.x = Fill(p.timewindow, Zero),
            !.y = Fill(p.timewindow, Zero)]

Plotter2d_reset_plot(p) ==
  LET last_x == IF p.databuffer_x # <<>> THEN p.databuffer_x[Len(p.databuffer_x)]
                ELSE Zero
      last_y == IF p.databuffer_y # <<>> THEN p.databuffer_y[Len(p.databuffer_y)]
                ELSE Zero
  IN  [p EXCEPT !.databuffer_x = Fill(p.timewindow, last_x),
                !.databuffer_y = Fill(p.timewindow, last_y),
                !.x = Fill(p.timewindow, ToFloat(last_x)),
                !.y = Fill(p.timewindow, ToFloat(last_y))]

\* plotter.reset_plot(), dispatched on the plotter's class
reset_plot(p) ==
  CASE p.kind = "DynamicPlotter"           -> DynamicPlotter_reset_plot(p)
    [] p.kind = "DynamicPlotter_MultiLine" -> MultiLine_reset_plot(p)
    [] p.kind = "DynamicPlotter_2d"        -> Plotter2d_reset_plot(p)

(***************************************************************************)
(* GroundStationApp.  The variable app holds the fields of the one         *)
(* GroundStationApp object (names as in the source, without the leading    *)
(* underscores), the widgets' state the handlers depend on (which controls *)
(* are shown, the status labels), the serial port with the lines written   *)
(* to it, and the two files the object keeps open.  Text that is only      *)
(* displayed (side bar values, mission time, packet label) is left out.    *)
(***************************************************************************)
VARIABLES
  app,      \* the GroundStationApp object
  now,      \* time.time(), in units of 1/(TimeWindow - 1) second
  dialog,   \* the modal QMessageBox a handler is waiting in, or "none"
  last,     \* history: the handler that ran last, with its inputs
  fuel      \* the steps an exploration that counts its steps has left

vars == <<app, now, dialog, last, fuel>>

S_NONE   == <<"N", "O", "N", "E">>
S_SIM    == <<"S", "I", "M">>
S_FLIGHT == <<"F", "L", "I", "G", "H", "T">>
S_CMD    == <<"C", "M", "D", ",">>

buttons_main ==
  {"button_advanced", "button_connection_group", "button_mode",
   "button_sensor_control", "button_telemetry"}

buttons_adv ==
  {"button_show_map", "button_reset_mission", "button_back",
   "button_get_log_data", "team_id_field", "team_id_field_info"}

buttons_telemetry ==
  {"button_transmit_on", "button_transmit_off", "button_restart", "button_back"}

buttons_mode ==
  {"button_sim_mode_enable", "button_sim_mode_disable",
   "button_sim_mode_activate", "button_back"}

buttons_sensor ==
  {"button_set_time", "set_time_field", "button_back", "button_altitude_cal",
   "program_servo_button", "servo_id_field", "servo_val_field",
   "program_camera_button", "camera_id_field", "camera_status_button",
   "probe_release_force"}

buttons_connection ==
  {"button_test_connection", "button_back", "button_connect",
   "combo_select_port", "button_refresh_ports"}

\* the field names of TelemetryData, in declaration order: the CSV columns
csv_fields ==
  <<"TEAM_ID", "MISSION_TIME", "PACKET_COUNT", "MODE", "STATE", "ALTITUDE",
    "TEMPERATURE", "PRESSURE", "VOLTAGE", "GYRO_R", "GYRO_P", "GYRO_Y",
    "ACCEL_R", "ACCEL_P", "ACCEL_Y", "MAG_R", "MAG_P", "MAG_Y",
    "AUTO_GYRO_ROTATION_RATE", "GPS_TIME", "GPS_ALTITUDE", "GPS_LATITUDE",
    "GPS_LONGITUDE", "GPS_SATS", "CMD_ECHO", "CAM_STATUS", "PACKET_RECV">>

FieldNames == {csv_fields[i] : i \in 1..Len(csv_fields)}

\* csv.DictWriter.writeheader(): the row of the column names
HeaderRow == [f \in FieldNames |-> <<f>>]

\* self.plotters, in the order of graph_info; graph_title_to_index + 1
IdxAltitude    == 1
IdxTemperature == 2
IdxPressure    == 3
IdxVoltage     == 4
IdxGyro        == 5
IdxGyroDiff    == 6
IdxAccel       == 7
IdxMag         == 8
IdxRotation    == 9
IdxGPS         == 10
IdxGPSAltitude == 11

init_lat  == PyFloat(38149574, 6)
init_long == PyFloat(790737, 4)

plotters_init(timewindow) ==
  [i \in 1..11 |->
     IF i \in {IdxGyro, IdxGyroDiff, IdxAccel, IdxMag} THEN MultiLine_init(timewindow, 3)
     ELSE IF i = IdxGPS THEN Plotter2d_init(timewindow, init_lat, init_long)
     ELSE DynamicPlotter_init(timewindow)]

\* the state __init__ leaves
AppInit ==
  [CURRENT_CMD_WINDOW |-> "None",
   recveived_data     |-> S_NONE,
   available_ports    |-> None,
   cansat_mode        |-> S_FLIGHT,
   PORT_SELECTED_INFO |-> None,
   serial             |-> [open |-> FALSE, written |-> <<>>],
   TEAM_ID            |-> 3114,
   packet_recv_count  |-> 0,
   packet_sent_count  |-> PyInt(0),
   graph_time_window  |-> TimeWindow,
   csv_file           |-> <<HeaderRow>>,
   outfile            |-> None,
   write_to_logfile   |-> 0,
   simp_timer         |-> [active |-> FALSE],
   simp_data          |-> <<>>,
   current_simp_idx   |-> 0,
   servo_id           |-> 0 - 1,
   servo_val          |-> 0 - 1,
   camera_id          |-> S_NONE,
   set_time_id        |-> 1,
   last_gyro_r        |-> Zero,
   last_gyro_p        |-> Zero,
   last_gyro_y        |-> Zero,
   GPS_LAT            |-> None,
   GPS_LONG           |-> None,
   plotters           |-> plotters_init(TimeWindow),
   gui_log            |-> <<>>,
   visible            |-> buttons_main,
   get_log_overlay    |-> FALSE,
   label_port         |-> "CLOSED",
   label_remote_mode  |-> <<>>,
   label_remote_state |-> <<>>,
   camera1_status     |-> "N/A",
   camera2_status     |-> "N/A",
   fault              |-> "none"]

\* update_gui_log(msg, color): fmt is the literal text of the message with {}
\* where a value is interpolated, arg the interpolated text
update_gui_log(s, fmt, arg, color) ==
  [s EXCEPT !.gui_log = Append(@, [fmt |-> fmt, arg |-> arg, color |-> color])]

set_port_text_closed(s) == [s EXCEPT !.label_port = "CLOSED"]

set_port_text_open(s) == [s EXCEPT !.label_port = "OPEN ON: {}"]

\* an exception leaves a slot: PyQt6 reports it and ends the process
\* (qFatal), with the state as the statements before it left it
Raise(s, exc) == [s EXCEPT !.fault = exc]

\* send_data without the test of isOpen()
send_data_ungated(s, msg, wr) ==
  [s |-> [s EXCEPT !.serial.written = Append(@, msg \o <<"\n">>)],
   ret |-> PyInt(1)]

\* send_data(msg).  wr is what QSerialPort.write does: "ok", or "raise" for
\* the exception the handler catches.  ret is the value returned (1, 0, or
\* None, which the callers test like 0).
send_data(s, msg, wr) ==
  IF s.serial.open
  THEN IF wr = "ok"
       THEN [s |-> [s EXCEPT !.serial.written = Append(@, msg \o <<"\n">>)],
             ret |-> PyInt(1)]
       ELSE [s |-> set_port_text_closed(
                     [update_gui_log(s, "ERROR: CANNOT SEND DATA - {}", <<>>, "red")
                        EXCEPT !.serial.open = FALSE]),
             ret |-> None]
  ELSE [s |-> update_gui_log(s, "ERROR: Open port before sending data!", <<>>, "red"),
        ret |-> PyInt(0)]

\* "CMD,%d,<verb>" % self.__TEAM_ID
CmdLine(team_id, verb) == S_CMD \o IntStr(team_id) \o <<",">> \o verb

\* the shape shared by the one-line commands:
\*   if(self.send_data(line)): self.update_gui_log(fmt)
SendAndLog(s, line, wr, fmt, arg) ==
  LET r == send_data(s, line, wr)
  IN  IF Truthy(r.ret) THEN update_gui_log(r.s, fmt, arg, "black") ELSE r.s

check_remote_connection(s, wr) ==
  SendAndLog(s, CmdLine(s.TEAM_ID, <<"T", "E", "S", "T", ",", "X">>), wr, "Sent test message", <<>>)

\* time_str is datetime.now(timezone.utc).strftime of the UTC time, HH:MM:SS
send_time(s, time_str, wr) ==
  IF s.set_time_id # 0
  THEN SendAndLog(s, CmdLine(s.TEAM_ID, <<"S", "T", ",", "G", "P", "S">>), wr,
                  "Sent GPS Set Time Command", <<>>)
  ELSE SendAndLog(s, CmdLine(s.TEAM_ID, <<"S", "T", ",">> \o time_str), wr,
                  "Sent new mission time '{}'", time_str)

send_restart(s, wr) ==
  SendAndLog(s, CmdLine(s.TEAM_ID, <<"R", "R", ",", "X">>), wr, "Sent restart signal", <<>>)

program_servo(s, wr) ==
  IF s.servo_id = 0 - 1 \/ s.servo_val = 0 - 1
  THEN update_gui_log(s, "ERROR: Enter a servo # and value first!", <<>>, "red")
  ELSE SendAndLog(s,
         CmdLine(s.TEAM_ID,
                 <<"M", "E", "C", ",", "S", "E", "R", "V", "O", ":">> \o IntStr(s.servo_id) \o <<"|">> \o IntStr(s.servo_val)),
         wr, "Sent command to program {} to {}",
         IntStr(s.servo_id) \o <<"|">> \o IntStr(s.servo_val))

toggle_camera(s, wr) ==
  SendAndLog(s, CmdLine(s.TEAM_ID, <<"M", "E", "C", ",">> \o s.camera_id \o <<":", "X">>), wr,
             "Sent {} toggle command", s.camera_id)

\* force_probe_release that does not look at the answer
force_probe_release_unasked(s, response, wr) ==
  SendAndLog(s, CmdLine(s.TEAM_ID, <<"M", "E", "C", ",", "R", "E", "L", "E", "A", "S", "E", ":", "X">>), wr,
             "Sent force probe release command", <<>>)

\* force_probe_release, after msg_box.exec() returned response
force_probe_release(s, response, wr) ==
  IF response = "Yes"
  THEN SendAndLog(s, CmdLine(s.TEAM_ID, <<"M", "E", "C", ",", "R", "E", "L", "E", "A", "S", "E", ":", "X">>), wr,
                  "Sent force probe release command", <<>>)
  ELSE s

\* get_cam_status: two commands, time.sleep(1) between them
get_cam_status(s, wr1, wr2) ==
  LET s1 == SendAndLog(s, CmdLine(s.TEAM_ID, <<"M", "E", "C", ",", "C", "A", "M", "E", "R", "A", "1", "_", "S", "T", "A", "T", ":", "X">>), wr1,
                       "Requesting CAMERA1 status", <<>>)
  IN  SendAndLog(s1, CmdLine(s1.TEAM_ID, <<"M", "E", "C", ",", "C", "A", "M", "E", "R", "A", "2", "_", "S", "T", "A", "T", ":", "X">>), wr2,
                 "Requesting CAMERA2 status", <<>>)

change_sim_mode(s, mode, wr) ==
  SendAndLog(s, CmdLine(s.TEAM_ID, <<"S", "I", "M", ",">> \o mode), wr,
             "Sent simulation mode '{}'", mode)

altitude_cal(s, wr) ==
  SendAndLog(s, CmdLine(s.TEAM_ID, <<"C", "A", "L", ",", "X">>), wr,
             "Sent altitude calibration command", <<>>)

\* get_log_data, after msg_box.exec() returned response
get_log_data(s, response, wr) ==
  IF response = "Yes"
  THEN SendAndLog(s, CmdLine(s.TEAM_ID, <<"G", "T", "L", "O", "G", "S", ",", "X">>), wr,
                  "Attempting to retreive log data...", <<>>)
  ELSE s

\* the loop over self.plotters leaving out the last plotter
reset_all_plotters_but_last(s) ==
  [s EXCEPT !.plotters = [i \in 1..Len(s.plotters) |->
                            IF i < Len(s.plotters) THEN reset_plot(s.plotters[i])
                            ELSE s.plotters[i]]]

\* for plotter in self.plotters: plotter.reset_plot()
reset_all_plotters(s) ==
  [s EXCEPT !.plotters = [i \in 1..Len(s.plotters) |-> reset_plot(s.plotters[i])]]

\* toggle_transmission(1) that resets the session whatever send_data returns
toggle_transmission_on_unasked(s, wr) ==
  LET r == send_data(s, CmdLine(s.TEAM_ID, <<"C", "X", ",", "O", "N">>), wr)
  IN  reset_all_plotters([r.s EXCEPT !.packet_recv_count = 0])

\* toggle_transmission(1)
toggle_transmission_on(s, wr) ==
  LET r == send_data(s, CmdLine(s.TEAM_ID, <<"C", "X", ",", "O", "N">>), wr)
  IN  IF Truthy(r.ret)
      THEN reset_all_plotters(
             [update_gui_log(r.s, "SENT TRANSMISSION ON COMMAND", <<>>, "black")
                EXCEPT !.packet_recv_count = 0])
      ELSE r.s

\* toggle_transmission(0) that sends CX,OFF and leaves the simp timer alone
toggle_transmission_off_timer_kept(s, response, wr) ==
  IF response = "Yes"
  THEN LET r == send_data(s, CmdLine(s.TEAM_ID, <<"C", "X", ",", "O", "F", "F">>), wr)
       IN  IF Truthy(r.ret)
           THEN update_gui_log(r.s, "SENT TRANSMISSION OFF COMMAND", <<>>, "black")
           ELSE r.s
  ELSE s

\* toggle_transmission(0), after msg_box.exec() returned response
toggle_transmission_off(s, response, wr) ==
  IF response = "Yes"
  THEN LET r == send_data(s, CmdLine(s.TEAM_ID, <<"C", "X", ",", "O", "F", "F">>), wr)
       IN  IF Truthy(r.ret)
           THEN LET s1 == update_gui_log(r.s, "SENT TRANSMISSION OFF COMMAND", <<>>, "black")
                IN  IF s1.cansat_mode = S_SIM
                    THEN [s1 EXCEPT !.simp_timer.active = FALSE,
                                    !.current_simp_idx = 0]
                    ELSE s1
           ELSE r.s
  ELSE s

\* team_id_edited: the field's validator lets only integer text through
team_id_edited(s, text) ==
  LET s1 == [s EXCEPT !.TEAM_ID = ParseInt(text).val.v]
  IN  update_gui_log(s1, "Updated ground station TEAM ID to '{}'", IntStr(s1.TEAM_ID), "black")

servo_id_edited(s, data) == [s EXCEPT !.servo_id = data]

servo_val_edited(s, text) == [s EXCEPT !.servo_val = ParseInt(text).val.v]

camera_id_edited(s, text) == [s EXCEPT !.camera_id = text]

set_time_field_edited(s, data) == [s EXCEPT !.set_time_id = data]

\* refresh_ports(b_print); ports is what QSerialPortInfo.availablePorts() returns
refresh_ports(s, b_print, ports) ==
  LET s1 == [s EXCEPT !.available_ports = [t |-> "list", items |-> ports]]
  IN  IF b_print THEN update_gui_log(s1, "Attempted port refresh", <<>>, "black") ELSE s1

\* port_selected; index is combo_select_port.currentIndex() + 1
port_selected(s, index) ==
  IF s.available_ports = None THEN Raise(s, "TypeError")
  ELSE IF Len(s.available_ports.items) # 0
  THEN update_gui_log(
         [s EXCEPT !.PORT_SELECTED_INFO = PyStr(<<s.available_ports.items[index]>>)],
         "Selected port: {}", <<s.available_ports.items[index]>>, "black")
  ELSE s

\* open_close_port; opened is what QSerialPort.open returns.
\* QSerialPort.close always leaves the port closed.
open_close_port(s, opened) ==
  IF s.serial.open
  THEN set_port_text_closed(
         update_gui_log([s EXCEPT !.serial.open = FALSE],
                        "Ground port was closed", <<>>, "black"))
  ELSE IF s.PORT_SELECTED_INFO # None
  THEN IF opened
       THEN update_gui_log(set_port_text_open([s EXCEPT !.serial.open = TRUE]),
                           "Ground port opened", <<>>, "black")
       ELSE update_gui_log(s, "FAILED to open port: {}!", s.PORT_SELECTED_INFO.s, "black")
  ELSE update_gui_log(s, "Select port before connecting!", <<>>, "red")

\* handle_serial_error that forgets the selected port when the device is gone
handle_serial_error_port_forgotten(s, error) ==
  CASE error = "ResourceError" ->
         set_port_text_closed(
           [update_gui_log(s, "SERIAL ERROR: Device disconnected", <<>>, "red")
              EXCEPT !.serial.open = FALSE, !.PORT_SELECTED_INFO = None])
    [] error = "OpenError" ->
         update_gui_log(s, "SERIAL ERROR: Could not open port", <<>>, "red")
    [] error = "DeviceNotFoundError" ->
         set_port_text_closed(
           [update_gui_log(s, "SERIAL ERROR: Device not found", <<>>, "red")
              EXCEPT !.serial.open = FALSE, !.PORT_SELECTED_INFO = None])
    [] error = "NoError" -> s
    [] OTHER ->
         update_gui_log(s, "SERIAL ERROR: {} detected", <<error>>, "black")

\* handle_serial_error(error)
handle_serial_error(s, error) ==
  CASE error = "ResourceError" ->
         set_port_text_closed(
           [update_gui_log(s, "SERIAL ERROR: Device disconnected", <<>>, "red")
              EXCEPT !.serial.open = FALSE])
    [] error = "OpenError" ->
         update_gui_log(s, "SERIAL ERROR: Could not open port", <<>>, "red")
    [] error = "DeviceNotFoundError" ->
         set_port_text_closed(
           [update_gui_log(s, "SERIAL ERROR: Device not found", <<>>, "red")
              EXCEPT !.serial.open = FALSE])
    [] error = "NoError" -> s
    [] OTHER ->
         update_gui_log(s, "SERIAL ERROR: {} detected", <<error>>, "black")

\* control_buttons that shows the buttons whatever hide is
control_buttons_shown(s, buttons, hide) ==
  [s EXCEPT !.visible = @ \cup buttons]

\* control_buttons(buttons, hide)
control_buttons(s, buttons, hide) ==
  [s EXCEPT !.visible = IF hide THEN @ \ buttons ELSE @ \cup buttons]

\* command_group_change_buttons(mode); ports is read when mode is CONNECTION
command_group_change_buttons(s, mode, ports) ==
  CASE mode = "TELEMETRY" ->
         [control_buttons(control_buttons(s, buttons_main, TRUE), buttons_telemetry, FALSE)
            EXCEPT !.CURRENT_CMD_WINDOW = "TELEMETRY"]
    [] mode = "MAIN" ->
         LET w == s.CURRENT_CMD_WINDOW
             s1 == CASE w = "ADVANCED"   -> control_buttons(s, buttons_adv, TRUE)
                     [] w = "MODE"       -> control_buttons(s, buttons_mode, TRUE)
                     [] w = "CONNECTION" -> control_buttons(s, buttons_connection, TRUE)
                     [] w = "SENSORS"    -> control_buttons(s, buttons_sensor, TRUE)
                     [] w = "TELEMETRY"  -> control_buttons(s, buttons_telemetry, TRUE)
                     [] OTHER            -> s
         IN  control_buttons(s1, buttons_main, FALSE)
    [] mode = "ADVANCED" ->
         [control_buttons(control_buttons(s, buttons_main, TRUE), buttons_adv, FALSE)
            EXCEPT !.CURRENT_CMD_WINDOW = "ADVANCED"]
    [] mode = "MODE" ->
         [control_buttons(control_buttons(s, buttons_main, TRUE), buttons_mode, FALSE)
            EXCEPT !.CURRENT_CMD_WINDOW = "MODE"]
    [] mode = "SENSORS" ->
         [control_buttons(control_buttons(s, buttons_main, TRUE), buttons_sensor, FALSE)
            EXCEPT !.CURRENT_CMD_WINDOW = "SENSORS"]
    [] mode = "CONNECTION" ->
         [control_buttons(control_buttons(refresh_ports(s, FALSE, ports),
                                          buttons_main, TRUE),
                          buttons_connection, FALSE)
            EXCEPT !.CURRENT_CMD_WINDOW = "CONNECTION"]

\* v == w for Python values: numbers compare by value, a str never equals a number
PyEq(v, w) ==
  IF v.t \in {"int", "float"} /\ w.t \in {"int", "float"}
  THEN ToFloat(v) = ToFloat(w)
  ELSE v = w

\* update_map_view(self.GPS_LAT, self.GPS_LONG): opening the browser changes
\* nothing the object keeps
update_map_view(s, lat, lon) ==
  IF lat = None \/ lon = None \/ PyEq(lat, Zero) \/ PyEq(lon, Zero)
  THEN update_gui_log(s, "No GPS data yet", <<>>, "red")
  ELSE s

\* reset_mission: seek(0) and truncate() empty the CSV file, header included
reset_mission(s) ==
  [reset_all_plotters([s EXCEPT !.gui_log = <<>>])
     EXCEPT !.csv_file = <<>>,
            !.packet_recv_count = 0,
            !.packet_sent_count = PyInt(0)]

\* a slot that moves the cursor only past a line that was written
send_simp_data_unsent_kept(s, wr) ==
  IF s.current_simp_idx < Len(s.simp_data)
  THEN LET r == send_data(s, s.simp_data[s.current_simp_idx + 1], wr)
       IN  IF Truthy(r.ret) THEN [r.s EXCEPT !.current_simp_idx = @ + 1] ELSE r.s
  ELSE [s EXCEPT !.simp_timer.active = FALSE]

\* send_simp_data, the slot of simp_timer.timeout
send_simp_data(s, wr) ==
  IF s.current_simp_idx < Len(s.simp_data)
  THEN LET r == send_data(s, s.simp_data[s.current_simp_idx + 1], wr)
       IN  [r.s EXCEPT !.current_simp_idx = @ + 1]
  ELSE [s EXCEPT !.simp_timer.active = FALSE]

(***************************************************************************)
(* Telemetry decoding                                                      *)
(***************************************************************************)

\* the conversion extract_data_str applies to field i (1-based)
FieldKind(i) ==
  IF i \in {1} \cup (10..15) THEN "int"
  ELSE IF i \in (6..9) \cup (16..19) \cup (21..23) THEN "float"
  ELSE "str"

Convert(kind, text) ==
  CASE kind = "int"   -> ParseInt(text)
    [] kind = "float" -> ParseFloat(text)
    [] kind = "str"   -> [ok |-> TRUE, val |-> PyStr(text)]

\* the conversions of extract_data_str, field by field: [ok |-> FALSE] where
\* int() or float() raises, None (converted) where the line has no such field
Conversions(fields) ==
  [i \in 1..26 |->
     IF i <= Len(fields) THEN Convert(FieldKind(i), fields[i])
     ELSE [ok |-> TRUE, val |-> None]]

\* TelemetryData(...): the first conversion that raises ends the call
TelemetryData(conv, packet_recv_count) ==
  IF \E i \in 1..26 : ~conv[i].ok
  THEN [exc |-> "ValueError"]
  ELSE [exc |-> "none",
        data |-> [f \in FieldNames |->
                    IF f = "PACKET_RECV" THEN PyInt(packet_recv_count)
                    ELSE conv[CHOOSE i \in 1..26 : csv_fields[i] = f].val]]

\* extract_data_str(msg): [exc |-> "ValueError"] when a conversion raises,
\* else the TelemetryData under data
extract_data_str(msg, packet_recv_count) ==
  TelemetryData(Conversions(Split(msg, ",")), packet_recv_count)

\* TelemetryData.to_dict
to_dict(data) == [f \in FieldNames |-> PyStrOf(data[f])]

\* the row process_data writes for a control line
EchoRow(msg) == [f \in FieldNames |-> IF f = "CMD_ECHO" THEN msg ELSE <<>>]

\* self.plotters[i].update_plot(v), made only "if v is not None"
UpdateIfPresent(s, i, v, current_time) ==
  IF v # None
  THEN [s EXCEPT !.plotters[i] = DynamicPlotter_update_plot(@, v, current_time)]
  ELSE s

UpdateMulti(s, i, vals, current_time) ==
  [s EXCEPT !.plotters[i] = MultiLine_update_plot(@, vals, current_time)]

\* the GPS block of parse_telemetry_string
UpdateGPS(s, data) ==
  IF data.GPS_LATITUDE # None /\ data.GPS_LONGITUDE # None
  THEN [s EXCEPT !.plotters[IdxGPS] =
                   Plotter2d_update_plot(@, data.GPS_LATITUDE, data.GPS_LONGITUDE),
                 !.GPS_LAT = data.GPS_LATITUDE,
                 !.GPS_LONG = data.GPS_LONGITUDE]
  ELSE s

\* self.__packet_sent_count = data.PACKET_COUNT
UpdateSentCount(s, data) ==
  IF data.PACKET_COUNT # None
  THEN [s EXCEPT !.packet_sent_count = data.PACKET_COUNT]
  ELSE s

\* the mode and state labels
UpdateModeLabels(s, data) ==
  [s EXCEPT !.label_remote_mode =
              IF data.MODE = PyStr(<<"F">>) THEN S_FLIGHT
              ELSE IF data.MODE = PyStr(<<"S">>) THEN S_SIM
              ELSE @,
            !.label_remote_state = IF data.STATE # None THEN data.STATE.s ELSE @]

\* the camera labels: CAM_STATUS, a str, is compared with the ints 3, 1 and 2
UpdateCamStatus(s, data) ==
  IF data.CAM_STATUS # None
  THEN [s EXCEPT
          !.camera1_status =
             IF PyEq(data.CAM_STATUS, PyInt(3)) \/ PyEq(data.CAM_STATUS, PyInt(1))
             THEN "ON" ELSE "OFF",
          !.camera2_status =
             IF PyEq(data.CAM_STATUS, PyInt(3)) \/ PyEq(data.CAM_STATUS, PyInt(2))
             THEN "ON" ELSE "OFF"]
  ELSE s

\* the statements of parse_telemetry_string after the gyro difference
ParseTail(s, data, current_time) ==
  [UpdateCamStatus(
     UpdateModeLabels(
       UpdateSentCount(
         UpdateIfPresent(
           UpdateGPS(
             UpdateIfPresent(
               UpdateMulti(
                 UpdateMulti(s, IdxAccel, <<data.ACCEL_R, data.ACCEL_P, data.ACCEL_Y>>,
                             current_time),
                 IdxMag, <<data.MAG_R, data.MAG_P, data.MAG_Y>>, current_time),
               IdxRotation, data.AUTO_GYRO_ROTATION_RATE, current_time),
             data),
           IdxGPSAltitude, data.GPS_ALTITUDE, current_time),
         data),
       data),
     data)
   EXCEPT !.csv_file = Append(@, to_dict(data))]

\* the gyro difference; s is the state after the Gyro window is updated.
\* None - float raises TypeError
GyroDiff(s, data, current_time) ==
  IF data.GYRO_R = None \/ data.GYRO_P = None \/ data.GYRO_Y = None
  THEN Raise(s, "TypeError")
  ELSE ParseTail(
         [UpdateMulti(s, IdxGyroDiff,
                      <<PySub(data.GYRO_R, s.last_gyro_r),
                        PySub(data.GYRO_P, s.last_gyro_p),
                        PySub(data.GYRO_Y, s.last_gyro_y)>>, current_time)
            EXCEPT !.last_gyro_r = data.GYRO_R,
                   !.last_gyro_p = data.GYRO_P,
                   !.last_gyro_y = data.GYRO_Y],
         data, current_time)

\* the statements of parse_telemetry_string from "Update graphs" on
UpdateGraphs(s, data, current_time) ==
  GyroDiff(
    UpdateMulti(
      UpdateIfPresent(
        UpdateIfPresent(
          UpdateIfPresent(
            UpdateIfPresent(s, IdxAltitude, data.ALTITUDE, current_time),
            IdxTemperature, data.TEMPERATURE, current_time),
          IdxPressure, data.PRESSURE, current_time),
        IdxVoltage, data.VOLTAGE, current_time),
      IdxGyro, <<data.GYRO_R, data.GYRO_P, data.GYRO_Y>>, current_time),
    data, current_time)

\* data = self.extract_data_str(msg), and what follows it
Decoded(s, x, current_time) ==
  IF x.exc # "none" THEN Raise(s, x.exc) ELSE UpdateGraphs(s, x.data, current_time)

\* a router that does not count the line
CountPacket_skipped(s) == s

\* self.__packet_recv_count += 1
CountPacket(s) == [s EXCEPT !.packet_recv_count = @ + 1]

\* parse_telemetry_string(msg)
parse_telemetry_string(s, msg, current_time) ==
  IF Replace(Strip(msg), ",", <<>>) = <<>> THEN CountPacket(s)
  ELSE Decoded(CountPacket(s), extract_data_str(msg, s.packet_recv_count + 1),
               current_time)

(***************************************************************************)
(* The receive path: recv_data and process_data                            *)
(***************************************************************************)
S_LOGFILE_BEGIN == <<"$", "L", "O", "G", "F", "I", "L", "E", ":", "B", "E", "G", "I", "N">>
S_LOGFILE_END   == <<"$", "L", "O", "G", "F", "I", "L", "E", ":", "E", "N", "D">>
S_BEGIN_SIMP    == <<"B", "E", "G", "I", "N", "_", "S", "I", "M", "P">>
S_SIMP_PREFIX   == <<"C", "M", "D", ",", "$", ",", "S", "I", "M", "P">>

\* the four camera tests of process_data, in the order of the source
CameraLabels(s, msg) ==
  LET s1 == IF Contains(msg, <<"C", "A", "M", "E", "R", "A", "1", " ", "O", "N">>) THEN [s EXCEPT !.camera1_status = "ON"] ELSE s
      s2 == IF Contains(msg, <<"C", "A", "M", "E", "R", "A", "2", " ", "O", "N">>) THEN [s1 EXCEPT !.camera2_status = "ON"] ELSE s1
      s3 == IF Contains(msg, <<"C", "A", "M", "E", "R", "A", "1", " ", "O", "F", "F">>) THEN [s2 EXCEPT !.camera1_status = "OFF"] ELSE s2
  IN  IF Contains(msg, <<"C", "A", "M", "E", "R", "A", "2", " ", "O", "F", "F">>) THEN [s3 EXCEPT !.camera2_status = "OFF"] ELSE s3

\* a load that keeps each line as the file holds it, its newline included
RECURSIVE LoadSimp_unstripped(_, _, _)
LoadSimp_unstripped(simp_data, lines, team_id) ==
  IF lines = <<>> THEN simp_data
  ELSE LoadSimp_unstripped(
         IF StartsWith(Head(lines), S_SIMP_PREFIX)
         THEN Append(simp_data, Replace(Head(lines), "$", IntStr(team_id)))
         ELSE simp_data,
         Tail(lines), team_id)

\* the loop over the lines of cansat_2023_simp.txt: the lines that start with
\* CMD,$,SIMP are appended to simp_data, the team id in place of "$"
RECURSIVE LoadSimp(_, _, _)
LoadSimp(simp_data, lines, team_id) ==
  IF lines = <<>> THEN simp_data
  ELSE LoadSimp(
         IF StartsWith(Head(lines), S_SIMP_PREFIX)
         THEN Append(simp_data, Strip(Replace(Head(lines), "$", IntStr(team_id))))
         ELSE simp_data,
         Tail(lines), team_id)

\* the "BEGIN_SIMP" block without the test of the mode
BeginSimp_any_mode(s, msg, file) ==
  IF Contains(msg, S_BEGIN_SIMP)
  THEN IF file.t = "missing"
       THEN update_gui_log(s, "ERROR: Could not find SIMP data file cansat_2023_simp.txt!",
                           <<>>, "red")
       ELSE [s EXCEPT !.simp_data = LoadSimp(@, file.lines, s.TEAM_ID),
                      !.current_simp_idx = 0,
                      !.simp_timer.active = TRUE]
  ELSE s

\* the "BEGIN_SIMP" block; file is what open("cansat_2023_simp.txt") finds
BeginSimp(s, msg, file) ==
  IF Contains(msg, S_BEGIN_SIMP) /\ s.cansat_mode = S_SIM
  THEN IF file.t = "missing"
       THEN update_gui_log(s, "ERROR: Could not find SIMP data file cansat_2023_simp.txt!",
                           <<>>, "red")
       ELSE [s EXCEPT !.simp_data = LoadSimp(@, file.lines, s.TEAM_ID),
                      !.current_simp_idx = 0,
                      !.simp_timer.active = TRUE]
  ELSE s

\* the last statements of the control-line branch: the log entry
LogControl(s, msg, msg_text) ==
  IF StartsWith(msg, <<"$", "E">>)
  THEN update_gui_log(s, "-> {}", msg_text, "red")
  ELSE update_gui_log(s, "-> {}", msg_text, "blue")

\* new_mode, new_state = mission_info.split('|'): ValueError unless two parts
SetMission(s, msg, msg_text, parts, file) ==
  IF Len(parts) # 2 THEN Raise(s, "ValueError")
  ELSE LogControl(BeginSimp([s EXCEPT !.cansat_mode = parts[1],
                                      !.label_remote_mode = parts[1],
                                      !.label_remote_state = parts[2]],
                            msg, file),
                  msg, msg_text)

\* mission_info: b is re.search('{(.+?)}', msg_text); .group on None raises
\* AttributeError, which is caught: mission_info = "NONE"
MissionInfo(s, msg, msg_text, b, file) ==
  IF (IF b.ok THEN b.group # S_NONE ELSE FALSE)
  THEN SetMission(s, msg, Strip(SubBrace(msg_text)), Split(b.group, "|"), file)
  ELSE LogControl(BeginSimp(s, msg, file), msg, msg_text)

\* msg_text = re.search('MSG:(.+)', msg).group(1): m is the match;
\* .group on None raises AttributeError
MsgText(s, msg, m, file) ==
  IF ~m.ok THEN Raise(s, "AttributeError")
  ELSE MissionInfo(s, msg, m.group, SearchBrace(m.group), file)

\* a control-line branch that writes no row for the line
ControlLine_unechoed(s, msg, file) ==
  MsgText(CameraLabels(s, msg), msg, SearchMsg(msg), file)

\* the control-line branch of process_data after the $LOGFILE:BEGIN test
ControlLine(s, msg, file) ==
  MsgText([CameraLabels(s, msg) EXCEPT !.csv_file = Append(@, EchoRow(msg))],
          msg, SearchMsg(msg), file)

\* process_data that opens the sink and does not write the begin line to it
process_data_begin_unwritten(s, current_time, file) ==
  LET msg == s.recveived_data
  IN  IF Strip(msg) = <<>> THEN s
      ELSE IF StartsWith(msg, <<"$">>)
      THEN IF Contains(msg, S_LOGFILE_BEGIN)
           THEN [s EXCEPT !.get_log_overlay = TRUE,
                          !.outfile = [t |-> "file", closed |-> FALSE, data |-> <<>>],
                          !.write_to_logfile = 1]
           ELSE ControlLine(s, msg, file)
      ELSE parse_telemetry_string(s, msg, current_time)

\* process_data, the slot of __data_received
process_data(s, current_time, file) ==
  LET msg == s.recveived_data
  IN  IF Strip(msg) = <<>> THEN s
      ELSE IF StartsWith(msg, <<"$">>)
      THEN IF Contains(msg, S_LOGFILE_BEGIN)
           THEN [s EXCEPT !.get_log_overlay = TRUE,
                          !.outfile = [t |-> "file", closed |-> FALSE,
                                       data |-> <<msg \o <<"\n">>>>],
                          !.write_to_logfile = 1]
           ELSE ControlLine(s, msg, file)
      ELSE parse_telemetry_string(s, msg, current_time)

\* file.write(b): ValueError on a closed file
FileWrite(s, line) ==
  IF s.outfile.closed THEN Raise(s, "ValueError")
  ELSE [s EXCEPT !.outfile.data = Append(@, line)]

\* the branch with the end sentinel tested, and the sink closed, before the
\* line is written
WriteLogLine_close_first(s, msg) ==
  IF Contains(msg, S_LOGFILE_END)
  THEN LET s1 == FileWrite([s EXCEPT !.get_log_overlay = FALSE,
                                     !.write_to_logfile = 0,
                                     !.outfile.closed = TRUE],
                           msg \o <<"\n">>)
       IN  IF s1.fault # "none" THEN s1
           ELSE update_gui_log(s1, "Finished uploading log data", <<>>, "black")
  ELSE FileWrite(s, msg \o <<"\n">>)

\* the branch of recv_data taken while __write_to_logfile is set
WriteLogLine(s, msg) ==
  LET s1 == FileWrite(s, msg \o <<"\n">>)
  IN  IF s1.fault # "none" THEN s1
      ELSE IF Contains(msg, S_LOGFILE_END)
      THEN update_gui_log(
             [s1 EXCEPT !.get_log_overlay = FALSE,
                        !.write_to_logfile = 0,
                        !.outfile.closed = TRUE],
             "Finished uploading log data", <<>>, "black")
      ELSE s1

\* recv_data without the test of __write_to_logfile
RecvLine_unrouted(s, raw, current_time, file) ==
  process_data([s EXCEPT !.recveived_data = Strip(raw)], current_time, file)

\* the body of the while loop of recv_data for one line read from the port:
\* msg = readLine().data().decode().strip()
RecvLine(s, raw, current_time, file) ==
  LET msg == Strip(raw)
  IN  IF s.write_to_logfile # 0
      THEN WriteLogLine(s, msg)
      ELSE process_data([s EXCEPT !.recveived_data = msg], current_time, file)

\* recv_data, the slot of readyRead: every line the port holds, in order;
\* __data_received is connected directly, so process_data runs inside emit()
RECURSIVE recv_data(_, _, _, _)
recv_data(s, lines, current_time, file) ==
  IF lines = <<>> \/ s.fault # "none" THEN s
  ELSE recv_data(RecvLine(s, Head(lines), current_time, file),
                 Tail(lines), current_time, file)

(***************************************************************************)
(* The environment: what the serial port delivers, what the operator       *)
(* enters, what the file system holds.                                     *)
(***************************************************************************)
L_BEGIN  == <<"$", "L", "O", "G", "F", "I", "L", "E", ":", "B", "E", "G", "I", "N", "\n">>
L_END    == <<"o", "k", " ", "$", "L", "O", "G", "F", "I", "L", "E", ":", "E", "N", "D", "\n">>
L_ENDS   == <<"$", "L", "O", "G", "F", "I", "L", "E", ":", "E", "N", "D", "\n">>
L_PAD    == <<" ", " ", "a", " ", "b", "\r", "\n">>
L_TEL    == <<"3", "1", "1", "4", ",", "t", ",", "1", ",", "F", ",", "S", ",", "1", ".", "5", ",", "2", ",", "3", ",", "4", ",", "1", ",", "2", ",", "3", "\n">>
L_TEL2   == <<"3", "1", "1", "4", ",", "u", ",", "9", ",", "S", ",", "D", ",", "2", ".", "5", ",", "2", ",", "3", ",", "4", ",", "5", ",", "2", ",", "3", ",", "1", ",", "1", ",", "1", ",", "1", ",", "1", ",", "1", ",", "7", ",", "g", ",", "8", ",", "3", "8", ".", "1", "5", ",", "-", "7", "9", ".", "0", "7", ",", "7", ",", "N", "O", "N", "E", ",", "3", "\n">>
L_SHORT  == <<"3", "1", "1", "4", ",", "t", ",", "1", "\n">>
L_BADID  == <<"x", ",", "1", "\n">>
L_BADALT == <<"3", "1", "1", "4", ",", "t", ",", "1", ",", "F", ",", "S", ",", "a", "b", "c", ",", "2", ",", "3", ",", "4", ",", "1", ",", "2", ",", "3", "\n">>
L_COMMAS == <<",", ",", "\n">>
L_EMPTY  == <<"\n">>
L_MSG    == <<"$", "M", "S", "G", ":", "g", "o", " ", "{", "S", "I", "M", "|", "A", "}", "\n">>
L_NOMSG  == <<"$", "o", "o", "p", "s", "\n">>
L_NOBAR  == <<"$", "M", "S", "G", ":", "a", " ", "{", "B", "}", "\n">>
L_SIMP   == <<"$", "M", "S", "G", ":", "B", "E", "G", "I", "N", "_", "S", "I", "M", "P", "\n">>

\* the lines the port delivers
Lines ==
  {L_BEGIN, L_END, L_ENDS, L_PAD, L_TEL, L_TEL2, L_SHORT, L_BADID, L_BADALT,
   L_COMMAS, L_EMPTY, L_MSG, L_NOMSG, L_NOBAR, L_SIMP}

\* what one readyRead finds in the port: the lines recv_data reads in one call
Bursts == {<<l>> : l \in Lines}

\* cansat_2023_simp.txt: absent, or a script of two commands and a comment
SimpScript ==
  <<<<"#", " ", "s", "i", "m", "p", "\n">>, <<"C", "M", "D", ",", "$", ",", "S", "I", "M", "P", ",", "1", "0", "1", "3", "2", "5", "\n">>, <<"C", "M", "D", ",", "$", ",", "S", "I", "M", "P", ",", "1", "0", "1", "3", "0", "0", "\n">>>>

SimpFiles == {[t |-> "missing"], [t |-> "file", lines |-> SimpScript]}

WriteOutcomes == {"ok", "raise"}

PortLists == {<<>>, <<"COM3">>}

SerialErrors ==
  {"ResourceError", "OpenError", "DeviceNotFoundError", "NoError", "TimeoutError"}

TeamIdTexts == {<<"7">>}

\* servo_id_field holds the items 0, 2, 1 and 3: the first and the last
ServoIds == {0, 3}

ServoValTexts == {<<"9", "0">>}

CameraIds == {<<"C", "A", "M", "E", "R", "A", "1">>, <<"C", "A", "M", "E", "R", "A", "2">>}

TimeStrs == {<<"1", "2", ":", "0", "0", ":", "0", "0">>}

SimModes == {<<"E", "N", "A", "B", "L", "E">>, <<"A", "C", "T", "I", "V", "A", "T", "E">>, <<"D", "I", "S", "A", "B", "L", "E">>}

\* bounds of the exploration
MaxLog     == 3
MaxCsv     == 3
MaxWritten == 2
MaxSink    == 3
MaxRecv    == 3
MaxTime    == 2

Budget ==
  /\ Len(app.gui_log) < MaxLog
  /\ Len(app.csv_file) < MaxCsv
  /\ Len(app.serial.written) < MaxWritten
  /\ app.packet_recv_count < MaxRecv
  /\ IF app.outfile = None THEN TRUE ELSE Len(app.outfile.data) < MaxSink

\* the process is alive; an exploration is bounded by its steps when it
\* counts them, and by the sizes of the collections when it does not
Ready == app.fault = "none" /\ (IF fuel.on THEN fuel.left > 0 ELSE Budget)

\* the operator can use widget w: it is shown and no modal dialog is open
CanUse(w) == Ready /\ dialog = "none" /\ w \in app.visible

NoInput == [op |-> "init", arg |-> <<>>, response |-> ""]

Ran(op, arg, response) ==
  /\ last' = [op |-> op, arg |-> arg, response |-> response]
  /\ fuel' = IF fuel.on THEN [fuel EXCEPT !.left = @ - 1] ELSE fuel

Unmetered == [on |-> FALSE, left |-> 0]

Init ==
  /\ app = AppInit
  /\ now = 1
  /\ dialog = "none"
  /\ last = NoInput
  /\ fuel = Unmetered

\* time passes
Tick ==
  /\ fuel.on => fuel.left > 0
  /\ now < MaxTime
  /\ now' = now + 1
  /\ Ran("tick", <<>>, "")
  /\ UNCHANGED <<app, dialog>>

\* readyRead of the open port, with the lines of one of bursts waiting
Recv(bursts) ==
  \E lines \in bursts, file \in SimpFiles :
    /\ Ready
    /\ app.serial.open
    /\ app' = recv_data(app, lines, now, file)
    /\ Ran("recv_data", lines, "")
    /\ UNCHANGED <<now, dialog>>

Slot_recv_data == Recv(Bursts)

Timer_send_simp_data ==
  \E wr \in WriteOutcomes :
    /\ Ready
    /\ app.simp_timer.active
    /\ app' = send_simp_data(app, wr)
    /\ Ran("send_simp_data", <<>>, "")
    /\ UNCHANGED <<now, dialog>>

Slot_handle_serial_error ==
  \E error \in SerialErrors :
    /\ Ready
    /\ app' = handle_serial_error(app, error)
    /\ Ran("handle_serial_error", <<error>>, "")
    /\ UNCHANGED <<now, dialog>>

Click_group ==
  \E g \in {<<"button_mode", "MODE">>, <<"button_connection_group", "CONNECTION">>,
            <<"button_telemetry", "TELEMETRY">>, <<"button_advanced", "ADVANCED">>,
            <<"button_sensor_control", "SENSORS">>, <<"button_back", "MAIN">>},
     ports \in PortLists :
    /\ CanUse(g[1])
    /\ app' = command_group_change_buttons(app, g[2], ports)
    /\ Ran("command_group_change_buttons", <<g[2]>>, "")
    /\ UNCHANGED <<now, dialog>>

Click_refresh_ports ==
  \E ports \in PortLists :
    /\ CanUse("button_refresh_ports")
    /\ app' = refresh_ports(app, TRUE, ports)
    /\ Ran("refresh_ports", <<>>, "")
    /\ UNCHANGED <<now, dialog>>

Select_port ==
  \E index \in 1..1 :
    /\ CanUse("combo_select_port")
    /\ app' = port_selected(app, index)
    /\ Ran("port_selected", <<index>>, "")
    /\ UNCHANGED <<now, dialog>>

Click_open_close_port ==
  \E opened \in BOOLEAN :
    /\ CanUse("button_connect")
    /\ app' = open_close_port(app, opened)
    /\ Ran("open_close_port", <<opened>>, "")
    /\ UNCHANGED <<now, dialog>>

\* the commands that are one send_data call
Click_command ==
  \E wr \in WriteOutcomes :
    /\ \/ /\ CanUse("button_test_connection")
          /\ app' = check_remote_connection(app, wr)
          /\ Ran("check_remote_connection", <<>>, "")
       \/ /\ CanUse("button_restart")
          /\ app' = send_restart(app, wr)
          /\ Ran("send_restart", <<>>, "")
       \/ /\ CanUse("button_altitude_cal")
          /\ app' = altitude_cal(app, wr)
          /\ Ran("altitude_cal", <<>>, "")
       \/ /\ CanUse("program_servo_button")
          /\ app' = program_servo(app, wr)
          /\ Ran("program_servo", <<>>, "")
       \/ /\ CanUse("program_camera_button")
          /\ app' = toggle_camera(app, wr)
          /\ Ran("toggle_camera", <<>>, "")
       \/ /\ CanUse("button_transmit_on")
          /\ app' = toggle_transmission_on(app, wr)
          /\ Ran("toggle_transmission_on", <<>>, "")
       \/ \E time_str \in TimeStrs :
            /\ CanUse("button_set_time")
            /\ app' = send_time(app, time_str, wr)
            /\ Ran("send_time", time_str, "")
       \/ \E m \in {<<"button_sim_mode_enable", <<"E", "N", "A", "B", "L", "E">>>>,
                    <<"button_sim_mode_activate", <<"A", "C", "T", "I", "V", "A", "T", "E">>>>,
                    <<"button_sim_mode_disable", <<"D", "I", "S", "A", "B", "L", "E">>>>} :
            /\ CanUse(m[1])
            /\ app' = change_sim_mode(app, m[2], wr)
            /\ Ran("change_sim_mode", m[2], "")
    /\ UNCHANGED <<now, dialog>>

\* get_cam_status blocks in time.sleep(1) between its two commands
Click_get_cam_status ==
  \E wr1 \in WriteOutcomes, wr2 \in WriteOutcomes :
    /\ CanUse("camera_status_button")
    /\ app' = get_cam_status(app, wr1, wr2)
    /\ now' = now + (TimeWindow - 1)
    /\ Ran("get_cam_status", <<>>, "")
    /\ UNCHANGED dialog

\* the three handlers that open a QMessageBox: msg_box.exec() runs an event
\* loop, in which the port and the timer are served and the window is not
Click_confirmed ==
  \E d \in {<<"probe_release_force", "force_probe_release">>,
            <<"button_get_log_data", "get_log_data">>,
            <<"button_transmit_off", "toggle_transmission_off">>} :
    /\ CanUse(d[1])
    /\ dialog' = d[2]
    /\ Ran("msg_box.exec", <<d[2]>>, "")
    /\ UNCHANGED <<app, now>>

\* the operator answers the QMessageBox and the handler runs on
Answer ==
  \E response \in {"Yes", "No"}, wr \in WriteOutcomes :
    /\ Ready
    /\ dialog # "none"
    /\ app' = CASE dialog = "force_probe_release" -> force_probe_release(app, response, wr)
                [] dialog = "get_log_data" -> get_log_data(app, response, wr)
                [] dialog = "toggle_transmission_off" ->
                     toggle_transmission_off(app, response, wr)
    /\ dialog' = "none"
    /\ Ran(dialog, <<>>, response)
    /\ UNCHANGED now

Edit_field ==
  /\ \/ \E text \in TeamIdTexts :
          /\ CanUse("team_id_field")
          /\ app' = team_id_edited(app, text)
          /\ Ran("team_id_edited", text, "")
     \/ \E data \in ServoIds :
          /\ CanUse("servo_id_field")
          /\ app' = servo_id_edited(app, data)
          /\ Ran("servo_id_edited", <<data>>, "")
     \/ \E text \in ServoValTexts :
          /\ CanUse("servo_val_field")
          /\ app' = servo_val_edited(app, text)
          /\ Ran("servo_val_edited", text, "")
     \/ \E text \in CameraIds :
          /\ CanUse("camera_id_field")
          /\ app' = camera_id_edited(app, text)
          /\ Ran("camera_id_edited", text, "")
     \/ \E data \in {0, 1} :
          /\ CanUse("set_time_field")
          /\ app' = set_time_field_edited(app, data)
          /\ Ran("set_time_field_edited", <<data>>, "")
  /\ UNCHANGED <<now, dialog>>

Click_reset_mission ==
  /\ CanUse("button_reset_mission")
  /\ app' = reset_mission(app)
  /\ Ran("reset_mission", <<>>, "")
  /\ UNCHANGED <<now, dialog>>

Click_show_map ==
  /\ CanUse("button_show_map")
  /\ app' = update_map_view(app, app.GPS_LAT, app.GPS_LONG)
  /\ Ran("update_map_view", <<>>, "")
  /\ UNCHANGED <<now, dialog>>

Next ==
  \/ Tick
  \/ Slot_recv_data
  \/ Timer_send_simp_data
  \/ Slot_handle_serial_error
  \/ Click_group
  \/ Click_refresh_ports
  \/ Select_port
  \/ Click_open_close_port
  \/ Click_command
  \/ Click_get_cam_status
  \/ Click_confirmed
  \/ Answer
  \/ Edit_field
  \/ Click_reset_mission
  \/ Click_show_map

Spec == Init /\ [][Next]_vars

\* the operator connects and the station listens
NextLink ==
  \/ Tick
  \/ Click_group
  \/ Select_port
  \/ Click_open_close_port
  \/ Slot_recv_data

SpecLink == Init /\ [][NextLink]_vars

(***************************************************************************)
(* The log upload: $LOGFILE:BEGIN ... $LOGFILE:END                         *)
(***************************************************************************)
BulkLines == {L_BEGIN, L_END, L_PAD, L_TEL, L_MSG}

BulkBursts == {<<l>> : l \in BulkLines} \cup {<<L_PAD, L_TEL>>, <<L_END, L_TEL>>}

Slot_recv_bulk == Recv(BulkBursts)

NextBulk ==
  \/ Click_group
  \/ Select_port
  \/ Click_open_close_port
  \/ Slot_recv_bulk

SpecBulk == Init /\ [][NextBulk]_vars

\* a line as the port delivers it, without its line terminator
Body(raw) ==
  LET a == IF raw # <<>> /\ raw[Len(raw)] = "\n" THEN SubSeq(raw, 1, Len(raw) - 1) ELSE raw
  IN  IF a # <<>> /\ a[Len(a)] = "\r" THEN SubSeq(a, 1, Len(a) - 1) ELSE a

\* how many lines of a burst an active upload takes: all of them up to and
\* including the first that holds the end sentinel
RECURSIVE ActiveCount(_)
ActiveCount(lines) ==
  IF lines = <<>> THEN 0
  ELSE IF Contains(Head(lines), S_LOGFILE_END) THEN 1
  ELSE 1 + ActiveCount(Tail(lines))

\* what the telemetry path and the control-line path write
TelemetryState(s) ==
  <<s.packet_recv_count, s.plotters, s.csv_file, s.cansat_mode,
    s.simp_timer, s.simp_data, s.current_simp_idx>>

\* a recv_data step of an active upload appends F(line) and a newline to the
\* sink for each line it takes, and changes nothing of the telemetry state
\* when it takes the whole burst
RoutedToSink(F(_)) ==
  LET lines == last'.arg
      k == ActiveCount(lines)
  IN  (app.write_to_logfile # 0 /\ last'.op = "recv_data") =>
        /\ app'.outfile.data =
             app.outfile.data \o [i \in 1..k |-> F(lines[i]) \o <<"\n">>]
        /\ k = Len(lines) => TelemetryState(app') = TelemetryState(app)

\* C1 as stated: while the upload is active every received line is appended
\* to the sink verbatim with one newline, and the recv counter, the sample
\* windows, the CSV records, the operating mode and the SIMP state are
\* unchanged
C1_Verbatim == [][RoutedToSink(Body)]_vars

\* C1 amended: while the upload is active every received line is appended to
\* the sink with its leading and trailing whitespace removed and one newline
\* added, and the recv counter, the sample windows, the CSV records, the
\* operating mode and the SIMP state are unchanged
C1_Stripped == [][RoutedToSink(Strip)]_vars

\* a telemetry line has arrived during an upload and is the last line of the sink
C1_Witness ==
  /\ app.write_to_logfile # 0
  /\ last.op = "recv_data"
  /\ last.arg = <<L_TEL>>
  /\ app.outfile.data[Len(app.outfile.data)] = Strip(L_TEL) \o <<"\n">>
  /\ app.packet_recv_count = 0

(***************************************************************************)
(* A whole upload in one burst: the begin line, some lines, the end line   *)
(***************************************************************************)
\* the most lines between the begin line and the end line
MaxMid == 2

MidLines == {L_TEL, L_PAD, L_MSG, L_BEGIN}

ScenarioBursts ==
  {<<L_BEGIN>> \o mid \o <<L_END>> : mid \in UNION {[1..n -> MidLines] : n \in 0..MaxMid}}

Slot_recv_scenario == Recv(ScenarioBursts \cup {<<L_TEL>>})

NextScenario ==
  \/ Click_group
  \/ Select_port
  \/ Click_open_close_port
  \/ Slot_recv_scenario

SpecScenario == Init /\ [][NextScenario]_vars

\* "$LOGFILE:BEGIN", then lines without the end sentinel, then a line with it
IsScenario(lines) ==
  /\ Len(lines) >= 2
  /\ Strip(lines[1]) = S_LOGFILE_BEGIN
  /\ Contains(lines[Len(lines)], S_LOGFILE_END)
  /\ \A i \in 2..(Len(lines) - 1) : ~Contains(lines[i], S_LOGFILE_END)

\* C2: received while no upload is active, "$LOGFILE:BEGIN", k lines without
\* the end sentinel and a line with it leave exactly k + 2 lines in the sink,
\* in the order of arrival, no frame in any sample window or in the CSV file,
\* and the upload ended (the flag down, the sink closed)
C2_Scenario ==
  [][(last'.op = "recv_data" /\ app.write_to_logfile = 0 /\ IsScenario(last'.arg)) =>
       /\ Len(app'.outfile.data) = Len(last'.arg)
       /\ \A i \in 1..Len(last'.arg) :
            app'.outfile.data[i] = Strip(last'.arg[i]) \o <<"\n">>
       /\ app'.write_to_logfile = 0
       /\ app'.outfile.closed
       /\ ~app'.get_log_overlay
       /\ app'.plotters = app.plotters
       /\ app'.csv_file = app.csv_file
       /\ app'.packet_recv_count = app.packet_recv_count]_vars

\* an upload with two lines between begin and end has just come in, after a frame
C2_Witness ==
  /\ last.op = "recv_data"
  /\ last.arg = <<L_BEGIN, L_TEL, L_PAD, L_END>>
  /\ Len(app.outfile.data) = 4
  /\ app.packet_recv_count = 1
  /\ app.write_to_logfile = 0

(***************************************************************************)
(* An upload among the other events: commands, port events, the SIMP timer *)
(***************************************************************************)
\* the station listens: the operator has opened the connection window,
\* picked COM3 and connected
Listening ==
  open_close_port(
    port_selected(command_group_change_buttons(AppInit, "CONNECTION", <<"COM3">>), 1),
    TRUE)

\* the simulation runs: the CanSat has reported SIM mode and asked for the
\* SIMP data, the file was there, and the operator has then gone to the
\* advanced commands and reset the mission
SimArmed ==
  command_group_change_buttons(
    reset_mission(
      command_group_change_buttons(
        command_group_change_buttons(
          recv_data(recv_data(Listening, <<L_MSG>>, 1, [t |-> "missing"]),
                    <<L_SIMP>>, 1, [t |-> "file", lines |-> SimpScript]),
          "MAIN", <<>>),
        "ADVANCED", <<>>)),
    "MAIN", <<>>)

\* the steps explored from there
MaxSessionSteps == 4

InitSession ==
  /\ app = SimArmed
  /\ now = 1
  /\ dialog = "none"
  /\ last = NoInput
  /\ fuel = [on |-> TRUE, left |-> MaxSessionSteps]

SessionBursts == {<<L_BEGIN>>, <<L_END>>, <<L_TEL>>, <<L_END, L_TEL>>}

Slot_recv_session == Recv(SessionBursts)

NextSession ==
  \/ Slot_recv_session
  \/ Timer_send_simp_data
  \/ Slot_handle_serial_error
  \/ Click_group
  \/ Select_port
  \/ Click_open_close_port
  \/ Click_command
  \/ Click_get_cam_status
  \/ Click_confirmed
  \/ Answer
  \/ Click_reset_mission

SpecSession == InitSession /\ [][NextSession]_vars

\* the "transfer complete" events in the log
CountDone(log) ==
  Cardinality({i \in 1..Len(log) : log[i].fmt = "Finished uploading log data"})

\* C3: an active upload ends only in a recv_data step that takes a line
\* holding "$LOGFILE:END"; in that step the lines up to and including that
\* one are in the sink, which is then closed, and one "transfer complete"
\* event is logged; no other step ends the upload, closes the sink or logs
\* that event
C3_EndsOnSentinel ==
  [][app.write_to_logfile # 0 =>
       IF app'.write_to_logfile = 0
       THEN /\ last'.op = "recv_data"
            /\ \E i \in 1..Len(last'.arg) : Contains(last'.arg[i], S_LOGFILE_END)
            /\ LET k == ActiveCount(last'.arg)
               IN  app'.outfile.data =
                     app.outfile.data \o [i \in 1..k |-> Strip(last'.arg[i]) \o <<"\n">>]
            /\ app'.outfile.closed
            /\ app'.fault = "none"
            /\ CountDone(app'.gui_log) = CountDone(app.gui_log) + 1
       ELSE /\ ~app'.outfile.closed
            /\ CountDone(app'.gui_log) <= CountDone(app.gui_log)
            /\ Contains(IF last'.op = "recv_data" THEN last'.arg[1] ELSE <<>>,
                        S_LOGFILE_END) = FALSE]_vars

\* the end line has ended an upload during which the SIMP timer sent a command
C3_Witness ==
  /\ last.op = "recv_data"
  /\ last.arg = <<L_END>>
  /\ app.write_to_logfile = 0
  /\ app.outfile # None
  /\ Len(app.outfile.data) = 2
  /\ app.current_simp_idx > 0
  /\ CountDone(app.gui_log) = 1

(***************************************************************************)
(* The operator at the console with the port closed: the command buttons   *)
(* and the fields                                                          *)
(***************************************************************************)
NextConsole ==
  \/ Click_group
  \/ Click_command
  \/ Click_get_cam_status
  \/ Click_confirmed
  \/ Answer
  \/ Edit_field

SpecConsole == Init /\ [][NextConsole]_vars

\* the handlers that issue commands; those behind a QMessageBox issue theirs
\* when the operator has answered Yes
DirectCommands ==
  {"check_remote_connection", "send_time", "send_restart", "program_servo",
   "toggle_camera", "get_cam_status", "change_sim_mode", "altitude_cal",
   "toggle_transmission_on"}

ConfirmedCommands == {"force_probe_release", "get_log_data", "toggle_transmission_off"}

Issued(l) ==
  \/ l.op \in DirectCommands
  \/ l.op \in ConfirmedCommands /\ l.response = "Yes"

\* the log events of a step, and the error events among them
CountNew(log, log2) == Len(log2) - Len(log)

CountNewErrors(log, log2) ==
  Cardinality({i \in (Len(log) + 1)..Len(log2) : log2[i].color = "red"})

\* the command lines a handler attempts: get_cam_status asks for the status of
\* CAMERA1 and of CAMERA2, every other handler attempts one
LinesAttempted(op) == IF op = "get_cam_status" THEN 2 ELSE 1

ClosedCommand(errors(_)) ==
  (~app.serial.open /\ Issued(last')) =>
    /\ app'.serial.written = app.serial.written
    /\ app'.fault = "none"
    /\ SubSeq(app'.gui_log, 1, Len(app.gui_log)) = app.gui_log
    /\ CountNewErrors(app.gui_log, app'.gui_log) = errors(last'.op)
    /\ CountNew(app.gui_log, app'.gui_log) = errors(last'.op)

OneError(op) == 1

\* C4 as stated: a command issued while the port is closed writes nothing to
\* the port and logs exactly one error event and no "sent" event, whichever
\* command handler it is
C4_OneErrorPerAction == [][ClosedCommand(OneError)]_vars

\* C4: a command issued while the port is closed writes nothing to the port,
\* logs no "sent" event, and logs one error event for each command line its
\* handler attempts: two for camera status, one for every other command
C4_OneErrorPerLine == [][ClosedCommand(LinesAttempted)]_vars

\* camera status was asked for with the port closed: two error events
C4_Witness ==
  /\ last.op = "get_cam_status"
  /\ ~app.serial.open
  /\ app.serial.written = <<>>
  /\ Len(app.gui_log) >= 2
  /\ app.gui_log[Len(app.gui_log)].fmt = "ERROR: Open port before sending data!"
  /\ app.gui_log[Len(app.gui_log) - 1].fmt = "ERROR: Open port before sending data!"

(***************************************************************************)
(* The commands behind a confirmation                                      *)
(***************************************************************************)
S_CX_OFF == <<"C", "X", ",", "O", "F", "F", "\n">>
S_RELEASE == <<"M", "E", "C", ",", "R", "E", "L", "E", "A", "S", "E", ":", "X", "\n">>
S_GTLOGS == <<"G", "T", "L", "O", "G", "S", ",", "X", "\n">>

\* the handler that sends each of the commands that are confirmed first
Destructive ==
  {<<S_CX_OFF, "toggle_transmission_off">>, <<S_RELEASE, "force_probe_release">>,
   <<S_GTLOGS, "get_log_data">>}

\* what follows "CMD,<team id>," in a line written to the port
CommandVerb(line) ==
  IF StartsWith(line, S_CMD)
  THEN SubSeq(line, Len(S_CMD) + Find(SubSeq(line, Len(S_CMD) + 1, Len(line)), <<",">>) + 1,
              Len(line))
  ELSE <<>>

\* the lines a step has written to the port
NewlyWritten == SubSeq(app'.serial.written, Len(app.serial.written) + 1, Len(app'.serial.written))

\* C5: a CX,OFF, MEC,RELEASE or GTLOGS command is written to the port only by
\* the step in which the QMessageBox of that handler returned Yes; the step in
\* which it returned No changes nothing in the station
C5_Confirmed ==
  [][/\ SubSeq(app'.serial.written, 1, Len(app.serial.written)) = app.serial.written
     /\ \A d \in Destructive :
          \A i \in 1..Len(NewlyWritten) :
            CommandVerb(NewlyWritten[i]) = d[1]
              => (last'.op = d[2] /\ last'.response = "Yes" /\ dialog = d[2])
     /\ (last'.op \in ConfirmedCommands /\ last'.response = "No") => app' = app]_vars

\* with the simulation running and a SIMP command sent, log retrieval was
\* asked for and declined
C5_Witness ==
  /\ last.op = "get_log_data"
  /\ last.response = "No"
  /\ dialog = "none"
  /\ app.simp_timer.active
  /\ app.current_simp_idx > 0
  /\ Len(app.serial.written) = 1

(***************************************************************************)
(* Telemetry lines that stop early                                         *)
(***************************************************************************)
\* c.join(fields), for a list that is not empty
RECURSIVE Join(_, _)
Join(fields, c) ==
  IF Len(fields) = 1 THEN fields[1]
  ELSE fields[1] \o <<c>> \o Join(Tail(fields), c)

FieldsOf(line) == Split(Body(line), ",")

\* the line that stops after the first n fields of line
Truncated(line, n) == Join(SubSeq(FieldsOf(line), 1, n), ",") \o <<"\n">>

\* the full line cut after each of its fields but the last
ShortLines == {Truncated(L_TEL2, n) : n \in 1..(Len(FieldsOf(L_TEL2)) - 1)}

Slot_recv_short == Recv({<<l>> : l \in ShortLines \cup {L_TEL2}})

\* the lines read from there
MaxShortSteps == 2

\* the station listens
InitShort ==
  /\ app = Listening
  /\ now = 1
  /\ dialog = "none"
  /\ last = NoInput
  /\ fuel = [on |-> TRUE, left |-> MaxShortSteps]

NextShort ==
  \/ Tick
  \/ Slot_recv_short

SpecShort == InitShort /\ [][NextShort]_vars

\* recv_data has taken the one line of the burst as telemetry, and the line
\* has fewer fields than a full one
ShortLineTaken ==
  /\ app.fault = "none"
  /\ app.write_to_logfile = 0
  /\ last'.op = "recv_data"
  /\ Len(last'.arg) = 1
  /\ last'.arg[1] \in ShortLines

\* the fields that extract_data_str leaves None: those after the last
\* field of the line
NoneBeyond(line, count) ==
  LET x == extract_data_str(Strip(line), count)
  IN  /\ x.exc = "none"
      /\ \A i \in 1..Len(FieldsOf(L_TEL2)) :
           (x.data[csv_fields[i]] = None) <=> (i > Len(FieldsOf(line)))

\* C6: a telemetry line of 1 to 25 fields is decoded into a frame whose
\* fields after the last one given are None, and parse_telemetry_string
\* returns without raising
C6_ShortLineDecodes ==
  [][ShortLineTaken =>
       /\ NoneBeyond(last'.arg[1], app'.packet_recv_count)
       /\ app'.fault = "none"]_vars

(***************************************************************************)
(* Telemetry lines with a field that does not parse                        *)
(***************************************************************************)
\* text that int() or float() refuses
BadTexts == {<<"a", "b", "c">>, <<"1", ".", "5">>, <<>>}

\* the numeric fields after the team id
NumericFields == {i \in 2..Len(FieldsOf(L_TEL2)) : FieldKind(i) # "str"}

\* line with the text of its field i replaced
Garbled(line, i, text) == Join([FieldsOf(line) EXCEPT ![i] = text], ",") \o <<"\n">>

\* the full line with one numeric field that does not parse
GarbledFields ==
  {g \in NumericFields \X BadTexts : ~Convert(FieldKind(g[1]), g[2]).ok}

GarbledLines == {Garbled(L_TEL2, g[1], g[2]) : g \in GarbledFields}

Slot_recv_garbled == Recv({<<l>> : l \in GarbledLines \cup {L_TEL2}})

NextGarbled ==
  \/ Tick
  \/ Slot_recv_garbled

SpecGarbled == InitShort /\ [][NextGarbled]_vars

\* the frame of the garbled line: that of the full line with None in field i
FrameWithNone(i, count) ==
  [extract_data_str(Strip(L_TEL2), count).data EXCEPT ![csv_fields[i]] = None]

\* C7: a telemetry line with unparsable text in one numeric field other than
\* the team id is processed without raising, and one record is persisted:
\* that of the same line with None for that field
C7_BadFieldIsNone ==
  [][\A g \in GarbledFields :
       (/\ app.fault = "none"
        /\ app.write_to_logfile = 0
        /\ last'.op = "recv_data"
        /\ last'.arg = <<Garbled(L_TEL2, g[1], g[2])>>)
       => /\ app'.fault = "none"
          /\ app'.csv_file =
               Append(app.csv_file, to_dict(FrameWithNone(g[1], app'.packet_recv_count)))]_vars

(***************************************************************************)
(* Lines the router cannot decode                                          *)
(***************************************************************************)
L_NEGID == <<"-", "5", ",", "t", ",", "1", ",", "F", ",", "S", ",", "1", ".", "5", ",", "2", ",", "3", ",", "4", ",", "1", ",", "2", ",", "3", "\n">>
L_NOID  == <<",", "t", ",", "1", ",", "F", ",", "S", ",", "1", ".", "5", ",", "2", ",", "3", ",", "4", ",", "1", ",", "2", ",", "3", "\n">>

\* telemetry lines whose first field is not an unsigned integer
BadIdLines == {L_BADID, L_NEGID, L_NOID, Garbled(L_TEL2, 1, <<"1", ".", "5">>)}

\* lines that are malformed in one way each: telemetry that stops early, with
\* a bad number or a bad team id, a control line without "MSG:", a bracket
\* without "|", an end sentinel with no upload active
MalformedLines == {L_SHORT, L_BADALT, L_BADID, L_NOMSG, L_NOBAR, L_ENDS}

\* the lines read from there
MaxRouterSteps == 3

InitRouter ==
  /\ app = Listening
  /\ now = 1
  /\ dialog = "none"
  /\ last = NoInput
  /\ fuel = [on |-> TRUE, left |-> MaxRouterSteps]

Slot_recv_malformed ==
  Recv({<<l>> : l \in BadIdLines \cup MalformedLines \cup {L_TEL, L_TEL2, L_MSG}})

NextMalformed ==
  \/ Tick
  \/ Slot_recv_malformed

SpecMalformed == InitRouter /\ [][NextMalformed]_vars

\* recv_data has handed the one line of the burst, one of lines, to
\* process_data
Routed(lines) ==
  /\ app.fault = "none"
  /\ app.write_to_logfile = 0
  /\ last'.op = "recv_data"
  /\ Len(last'.arg) = 1
  /\ last'.arg[1] \in lines

\* C8: a telemetry line whose first field is not an unsigned integer is
\* dropped: one warning is logged, no sample window changes, no record is
\* written, and no exception leaves the router
C8_MalformedDropped ==
  [][Routed(BadIdLines) =>
       /\ app'.fault = "none"
       /\ Len(app'.gui_log) = Len(app.gui_log) + 1
       /\ app'.plotters = app.plotters
       /\ app'.csv_file = app.csv_file]_vars

\* a record without its receive count
Uncounted(row) == [f \in FieldNames \ {"PACKET_RECV"} |-> row[f]]

\* what a well-formed telemetry line, received next, does to s: the windows
\* and the record
NextFrame(s, current_time) ==
  LET t == recv_data(s, <<L_TEL2>>, current_time, [t |-> "missing"])
  IN  IF t.fault = "none" /\ Len(t.csv_file) = Len(s.csv_file) + 1
      THEN [ok |-> TRUE, plotters |-> t.plotters,
            row |-> Uncounted(t.csv_file[Len(t.csv_file)])]
      ELSE [ok |-> FALSE]

\* C9: after one malformed line the router is serviceable: a well-formed
\* telemetry line received next updates the windows and is persisted as it
\* would have been without the malformed line, the counter values apart
C9_Serviceable ==
  [][Routed(MalformedLines) =>
       /\ app'.fault = "none"
       /\ NextFrame(app', now).ok
       /\ NextFrame(app', now) = NextFrame(app, now)]_vars

(***************************************************************************)
(* The receive count over a run with restarts of the transmission and      *)
(* mission resets                                                          *)
(***************************************************************************)
\* a full line followed by one more field
L_WIDE == Body(L_TEL2) \o <<",", "9", "9", "\n">>

\* the station listens and the operator has the telemetry commands open
Monitoring ==
  command_group_change_buttons(
    command_group_change_buttons(Listening, "MAIN", <<>>), "TELEMETRY", <<>>)

\* the steps explored from there
MaxRunSteps == 5

InitRun ==
  /\ app = Monitoring
  /\ now = 1
  /\ dialog = "none"
  /\ last = NoInput
  /\ fuel = [on |-> TRUE, left |-> MaxRunSteps]

Slot_recv_run == Recv({<<L_TEL>>, <<L_WIDE>>, <<L_COMMAS>>, <<L_TEL, L_WIDE>>})

NextRun ==
  \/ Slot_recv_run
  \/ Click_group
  \/ Click_command
  \/ Click_confirmed
  \/ Answer
  \/ Click_reset_mission

SpecRun == InitRun /\ [][NextRun]_vars

IsFrame(row) == ParseInt(row.PACKET_RECV).ok

\* the packet_recv values of the telemetry records among rows, in order
Stamps(rows) ==
  LET frames == SelectSeq(rows, IsFrame)
  IN  [i \in 1..Len(frames) |-> ParseInt(frames[i].PACKET_RECV).val.v]

\* each of stamps is greater than the one before it, and the first than lo
IncreasingFrom(lo, stamps) ==
  \A i \in 1..Len(stamps) : stamps[i] > (IF i = 1 THEN lo ELSE stamps[i - 1])

\* the frames a recv_data step emits are stamped with the values the
\* receive counter takes in that step, whatever the lines hold
StampedFromCounter ==
  last'.op = "recv_data" =>
    LET new == Stamps(SubSeq(app'.csv_file, Len(app.csv_file) + 1, Len(app'.csv_file)))
    IN  /\ SubSeq(app'.csv_file, 1, Len(app.csv_file)) = app.csv_file
        /\ IncreasingFrom(app.packet_recv_count, new)
        /\ \A i \in 1..Len(new) : new[i] <= app'.packet_recv_count

\* the steps that reset the receive counter: reset_mission, and
\* toggle_transmission(1) when its command was sent
ResetsCount ==
  \/ last'.op = "reset_mission"
  \/ /\ last'.op = "toggle_transmission_on"
     /\ Len(app'.serial.written) > Len(app.serial.written)

\* C10 as stated: each frame is stamped from the receive counter, and the
\* stamps of the frames on record increase strictly over the whole run
C10_IncreasingOverRun ==
  [][StampedFromCounter /\ IncreasingFrom(0, Stamps(app'.csv_file))]_vars

\* C10: each frame is stamped from the receive counter and not from the
\* line, with a value greater than the counter had before the step; the
\* counter goes to 0 in reset_mission and when CX,ON is sent, and is lowered by
\* nothing else, so the stamps increase strictly between two resets
C10_IncreasingSinceReset ==
  [][/\ StampedFromCounter
     /\ IF ResetsCount THEN app'.packet_recv_count = 0
        ELSE app'.packet_recv_count >= app.packet_recv_count]_vars

\* a frame stamped 1, the transmission started again, and a line with a
\* 27th field stamped 1 as well
C10_Witness ==
  /\ last.op = "recv_data"
  /\ last.arg = <<L_WIDE>>
  /\ app.packet_recv_count = 1
  /\ Stamps(app.csv_file) = <<1, 1>>
  /\ Len(app.serial.written) = 1

(***************************************************************************)
(* The camera status of a telemetry line                                   *)
(***************************************************************************)
\* a full line that ends with the camera status c: team id 3114, altitude
\* 1234.5, gyro 1, 2, 3; the text fields and the GPS numbers are short ones
L_CAM(c) ==
  <<"3", "1", "1", "4", ",", "t", ",", "1", "2", ",", "F", ",", "D", ",", "1", "2", "3", "4", ".", "5", ",", "2", "2", ".", "1", ",", "1", "0", "1", ".", "3", ",", "5", ".", "0", "1", ",", "1", ",", "2", ",", "3", ",", "1", "0", ",", "2", "0", ",", "3", "0", ",", "0", ".", "1", ",", "0", ".", "2", ",", "0", ".", "3", ",", "1", "5", ",", "g", ",", "8", ",", "3", "8", ".", "1", "5", ",", "-", "7", "9", ".", "0", "7", ",", "7", ",", "N", "O", "N", "E", ",">>
    \o c \o <<"\n">>

CamTexts == {<<"0">>, <<"1">>, <<"2">>, <<"3">>}

L_CAM1_ON == <<"$", "M", "S", "G", ":", "C", "A", "M", "E", "R", "A", "1", " ", "O", "N", "\n">>
L_CAM2_ON == <<"$", "M", "S", "G", ":", "C", "A", "M", "E", "R", "A", "2", " ", "O", "N", "\n">>

Slot_recv_camera ==
  Recv({<<L_CAM(c)>> : c \in CamTexts} \cup {<<L_CAM1_ON>>, <<L_CAM2_ON>>, <<L_TEL>>})

NextCamera ==
  \/ Tick
  \/ Slot_recv_camera

SpecCamera == InitRouter /\ [][NextCamera]_vars

\* the frame of the line with camera status c has the values of the line
CamFrame(c, count) ==
  LET x == extract_data_str(Strip(L_CAM(c)), count)
  IN  /\ x.exc = "none"
      /\ x.data.TEAM_ID = PyInt(3114)
      /\ x.data.ALTITUDE = PyFloat(12345, 1)
      /\ <<x.data.GYRO_R, x.data.GYRO_P, x.data.GYRO_Y>> = <<PyInt(1), PyInt(2), PyInt(3)>>
      /\ PyEq(x.data.CAM_STATUS, PyInt(ParseInt(c).val.v))

\* C11: the full line with camera status 3 decodes to team_id 3114, altitude
\* 1234.5, gyro (1, 2, 3), cam_status 3 and sets CAMERA1 and CAMERA2 to ON;
\* in general status 1 or 3 sets CAMERA1 ON and status 2 or 3 sets CAMERA2 ON
C11_CameraStatus ==
  [][\A c \in CamTexts :
       Routed({L_CAM(c)}) =>
         /\ app'.fault = "none"
         /\ CamFrame(c, app'.packet_recv_count)
         /\ ((c \in {<<"1">>, <<"3">>}) => app'.camera1_status = "ON")
         /\ ((c \in {<<"2">>, <<"3">>}) => app'.camera2_status = "ON")]_vars

(***************************************************************************)
(* SIMP playback: the script, the timer and its ticks                      *)
(***************************************************************************)
\* the station listens and the CanSat has reported SIM mode
SimReady == recv_data(Listening, <<L_MSG>>, 1, [t |-> "missing"])

\* the steps explored from there
MaxPlaySteps == 7

InitPlay ==
  /\ app = SimReady
  /\ now = 1
  /\ dialog = "none"
  /\ last = NoInput
  /\ fuel = [on |-> TRUE, left |-> MaxPlaySteps]

Slot_recv_simp_begin == Recv({<<L_SIMP>>})

NextPlay ==
  \/ Slot_recv_simp_begin
  \/ Timer_send_simp_data

SpecPlay == InitPlay /\ [][NextPlay]_vars

\* the commands of cansat_2023_simp.txt, as one load makes them
ScriptLines == LoadSimp(<<>>, SimpScript, AppInit.TEAM_ID)

\* the tick in which the timer stops itself
SelfStop ==
  /\ last'.op = "send_simp_data"
  /\ app.simp_timer.active
  /\ ~app'.simp_timer.active

\* C12: a playback sends the n lines of the script in script order, one per
\* tick, and the timer then stops itself: when it does, with the port open
\* all along, n lines were sent since the playback began and they are the
\* script
C12_PlaysScriptOnce ==
  [][(SelfStop /\ app.serial.open) =>
       LET k == app.current_simp_idx
           w == app.serial.written
       IN  /\ k = Len(ScriptLines)
           /\ Len(w) >= k
           /\ SubSeq(w, Len(w) - k + 1, Len(w)) =
                [i \in 1..k |-> ScriptLines[i] \o <<"\n">>]]_vars

(***************************************************************************)
(* SIMP playback: what starts it and what stops it                         *)
(***************************************************************************)
\* a SimpBegin whose bracket reports SIM mode, and one that reports flight
L_SIMP_SIM == <<"$", "M", "S", "G", ":", "B", "E", "G", "I", "N", "_", "S", "I", "M", "P", " ", "{", "S", "I", "M", "|", "A", "}">> \o <<"\n">>
L_SIMP_F   == <<"$", "M", "S", "G", ":", "B", "E", "G", "I", "N", "_", "S", "I", "M", "P", " ", "{", "F", "|", "A", "}">> \o <<"\n">>

SimpBeginLines == {L_SIMP, L_SIMP_SIM, L_SIMP_F}

\* the steps explored from the monitoring station
MaxSimpSteps == 4

InitSimp ==
  /\ app = Monitoring
  /\ now = 1
  /\ dialog = "none"
  /\ last = NoInput
  /\ fuel = [on |-> TRUE, left |-> MaxSimpSteps]

Slot_recv_simp == Recv({<<l>> : l \in SimpBeginLines \cup {L_MSG}})

NextSimp ==
  \/ Slot_recv_simp
  \/ Timer_send_simp_data
  \/ Click_command
  \/ Click_confirmed
  \/ Answer

SpecSimp == InitSimp /\ [][NextSimp]_vars

\* the step is the slot working on the one line l
Received(l) == last'.op = "recv_data" /\ last'.arg = <<l>>

\* the timer, the script and the cursor are as they were
SimpUntouched ==
  /\ app'.simp_timer = app.simp_timer
  /\ app'.simp_data = app.simp_data
  /\ app'.current_simp_idx = app.current_simp_idx

\* C13: the simp timer starts only in a step that processes a SimpBegin and
\* leaves the mode, as the line's own bracket set it, at SIM; a SimpBegin in
\* another mode, and a CX,ON command, leave timer, script and cursor alone
C13_StartedBySimpBegin ==
  [][/\ (~app.simp_timer.active /\ app'.simp_timer.active) =>
          /\ \E l \in SimpBeginLines : Received(l)
          /\ app'.cansat_mode = S_SIM
     /\ ((\E l \in SimpBeginLines : Received(l)) /\ app'.cansat_mode # S_SIM) =>
          SimpUntouched
     /\ (last'.op = "toggle_transmission_on") => SimpUntouched]_vars

\* the first line the station gets is a SimpBegin that reports SIM mode: the
\* playback is armed although the station was in flight mode
C13_Witness ==
  /\ last.op = "recv_data"
  /\ last.arg = <<L_SIMP_SIM>>
  /\ fuel.left = MaxSimpSteps - 1
  /\ app.cansat_mode = S_SIM
  /\ app.simp_timer.active
  /\ app.simp_data = ScriptLines


\* a line of the SIMP script, as written to the port
IsScriptLine(line) == StartsWith(CommandVerb(line), <<"S", "I", "M", "P">>)

\* the step is toggle_transmission(0) confirmed, with CX,OFF written
SentTransmissionOff ==
  /\ last'.op = "toggle_transmission_off"
  /\ last'.response = "Yes"
  /\ NewlyWritten # <<>>

\* C14: a confirmed CX,OFF that is sent in SIM mode stops the simp timer and
\* sets the cursor to 0; while the timer is stopped no script line is written
\* to the port, and only a SimpBegin starts the timer again
C14_TransmissionOffStops ==
  [][/\ (SentTransmissionOff /\ app.cansat_mode = S_SIM) =>
          (~app'.simp_timer.active /\ app'.current_simp_idx = 0)
     /\ (~app.simp_timer.active) =>
          /\ \A i \in 1..Len(NewlyWritten) : ~IsScriptLine(NewlyWritten[i])
          /\ app'.simp_timer.active => \E l \in SimpBeginLines : Received(l)]_vars

\* the playback had sent its first line of two when the operator confirmed
\* the end of the mission
C14_Witness ==
  /\ last.op = "toggle_transmission_off"
  /\ last.response = "Yes"
  /\ app.cansat_mode = S_SIM
  /\ Len(app.simp_data) = 2
  /\ Len(app.serial.written) = 2
  /\ IsScriptLine(app.serial.written[1])
  /\ CommandVerb(app.serial.written[2]) = S_CX_OFF
  /\ ~app.simp_timer.active
  /\ app.current_simp_idx = 0

(***************************************************************************)
(* SIMP playback and the closing of the port                               *)
(***************************************************************************)
\* the steps explored from the listening station in SIM mode
MaxCloseSteps == 4

InitClose ==
  /\ app = SimReady
  /\ now = 1
  /\ dialog = "none"
  /\ last = NoInput
  /\ fuel = [on |-> TRUE, left |-> MaxCloseSteps]

NextClose ==
  \/ Slot_recv_simp_begin
  \/ Timer_send_simp_data
  \/ Click_open_close_port
  \/ Slot_handle_serial_error

SpecClose == InitClose /\ [][NextClose]_vars

\* C15: the port was open at the start, so it is closed only by a close
\* (open_close_port, handle_serial_error or a failed write); whenever it is
\* closed the simp timer is not running, and so no tick attempts a send
C15_CloseStopsTicker == (~app.serial.open) => ~app.simp_timer.active


\* the step changed nothing in the station but the log
OnlyLogged == app' = [app EXCEPT !.gui_log = app'.gui_log]

\* the connect button is used with the port open
RequestOnOpen == last'.op = "open_close_port" /\ app.serial.open

\* a serial error arrives with the port closed
ErrorOnClosed == last'.op = "handle_serial_error" /\ ~app.serial.open

\* C16 as stated: the connect request on an open port, and a close of a
\* closed port, change nothing in the station but the log
C16_Idempotent == [][(RequestOnOpen \/ ErrorOnClosed) => OnlyLogged]_vars

\* C16: a serial error on a closed port changes nothing but the log, whether
\* it is one that closes the port or not; the connect button on an open port
\* closes it: the port, its text and the log change and nothing else
C16_CloseOfClosed ==
  [][/\ ErrorOnClosed => OnlyLogged
     /\ RequestOnOpen =>
          /\ ~app'.serial.open
          /\ app'.label_port = "CLOSED"
          /\ app' = [app EXCEPT !.serial.open = FALSE,
                                !.label_port = "CLOSED",
                                !.gui_log = app'.gui_log]]_vars

\* the device was reported gone twice: the first report closed the port, the
\* second found it closed; the script is loaded and the timer runs
C16_Witness ==
  /\ last.op = "handle_serial_error"
  /\ last.arg = <<"DeviceNotFoundError">>
  /\ fuel.left = MaxCloseSteps - 3
  /\ ~app.serial.open
  /\ app.label_port = "CLOSED"
  /\ app.simp_timer.active
  /\ Len(app.gui_log) >= 2
  /\ app.gui_log[Len(app.gui_log)].fmt = "SERIAL ERROR: Device not found"
  /\ app.gui_log[Len(app.gui_log) - 1].fmt = "SERIAL ERROR: Device disconnected"


(***************************************************************************)
(* The start of the transmission and the plotters                          *)
(***************************************************************************)
\* p holds what reset_plot leaves of the plotter q: zeros on the np.linspace
\* time axis and no last_time for the plotters over time, the last position
\* in every slot for the plotter of positions, which keeps no last_time
IsReset(p, q) ==
  /\ p.kind = q.kind
  /\ p.timewindow = q.timewindow
  /\ CASE q.kind = "DynamicPlotter" ->
            /\ p.databuffer = Fill(q.timewindow, Zero)
            /\ p.y = Fill(q.timewindow, Zero)
            /\ p.x = Linspace(q.timewindow)
            /\ p.last_time = None
       [] q.kind = "DynamicPlotter_MultiLine" ->
            /\ p.databuffer = Fill(q.num_lines, Fill(q.timewindow, Zero))
            /\ p.y = Fill(q.num_lines, Fill(q.timewindow, Zero))
            /\ p.x = Linspace(q.timewindow)
            /\ p.last_time = None
       [] q.kind = "DynamicPlotter_2d" ->
            /\ p.databuffer_x = Fill(q.timewindow, q.databuffer_x[q.timewindow])
            /\ p.databuffer_y = Fill(q.timewindow, q.databuffer_y[q.timewindow])
            /\ "last_time" \notin DOMAIN p

\* the steps explored from the monitoring station
MaxStartSteps == 3

InitStart ==
  /\ app = Monitoring
  /\ now = 1
  /\ dialog = "none"
  /\ last = NoInput
  /\ fuel = [on |-> TRUE, left |-> MaxStartSteps]

Slot_recv_start == Recv({<<L_TEL>>, <<L_WIDE>>})

NextStart ==
  \/ Tick
  \/ Slot_recv_start
  \/ Click_command

SpecStart == InitStart /\ [][NextStart]_vars

\* the step is toggle_transmission(1) with CX,ON written to the port
SentTransmissionOn ==
  /\ last'.op = "toggle_transmission_on"
  /\ Len(NewlyWritten) = 1
  /\ CommandVerb(NewlyWritten[1]) = <<"C", "X", ",", "O", "N", "\n">>

\* C17: when CX,ON is written to the open port, the receive counter is 0
\* after the step and each of the eleven plotters is reset
C17_StartResets ==
  [][SentTransmissionOn =>
       /\ app'.packet_recv_count = 0
       /\ Len(app'.plotters) = 11
       /\ \A i \in 1..11 : IsReset(app'.plotters[i], app.plotters[i])]_vars

\* a full frame was plotted, with its position, and the transmission was
\* then started again
C17_Witness ==
  /\ last.op = "toggle_transmission_on"
  /\ Len(app.serial.written) = 1
  /\ Stamps(app.csv_file) = <<1>>
  /\ app.packet_recv_count = 0
  /\ app.plotters[IdxAltitude].databuffer = Fill(TimeWindow, Zero)
  /\ app.plotters[IdxAltitude].last_time = None
  /\ app.plotters[IdxGPS].databuffer_x = Fill(TimeWindow, PyFloat(3815, 2))


(***************************************************************************)
(* The end sentinel with no upload active                                  *)
(***************************************************************************)
\* the end sentinel inside a message line
L_END_MSG == <<"$", "M", "S", "G", ":", "$", "L", "O", "G", "F", "I", "L", "E", ":", "E", "N", "D">> \o <<"\n">>

\* lines that hold "$LOGFILE:END": after other text, alone, and in a message
EndLines == {L_END, L_ENDS, L_END_MSG}

Slot_recv_end == Recv({<<l>> : l \in EndLines \cup {L_TEL, L_MSG}})

NextIdleEnd ==
  \/ Tick
  \/ Slot_recv_end

SpecIdleEnd == InitRouter /\ [][NextIdleEnd]_vars

\* C18: a line with the end sentinel that arrives while no upload is active
\* is ignored: no upload starts, nothing is written to the sink, the receive
\* counter, the CSV records and the plotters stay as they are, and no
\* exception is raised
C18_IdleEndIgnored ==
  [][Routed(EndLines) =>
       /\ app'.fault = "none"
       /\ app'.write_to_logfile = 0
       /\ app'.outfile = app.outfile
       /\ app'.packet_recv_count = app.packet_recv_count
       /\ app'.csv_file = app.csv_file
       /\ app'.plotters = app.plotters]_vars


(***************************************************************************)
(* The hand-off from recv_data to process_data                             *)
(***************************************************************************)
\* a second telemetry line, told from L_TEL by its mission time
L_TELB == <<"3", "1", "1", "4", ",", "v", ",", "2", ",", "F", ",", "S", ",", "2", ".", "5", ",", "2", ",", "3", ",", "4", ",", "1", ",", "2", ",", "3">> \o <<"\n">>

HandOffLines == {L_TEL, L_TELB, L_MSG, L_BEGIN, L_END, L_NOMSG}

\* the lines one readyRead may find waiting
MaxBurst == 2

HandOffBursts == UNION {[1..n -> HandOffLines] : n \in 1..MaxBurst}

\* the steps explored from the listening station
MaxHandOffSteps == 2

InitHandOff ==
  /\ app = Listening
  /\ now = 1
  /\ dialog = "none"
  /\ last = NoInput
  /\ fuel = [on |-> TRUE, left |-> MaxHandOffSteps]

Slot_recv_handoff == Recv(HandOffBursts)

NextHandOff ==
  \/ Tick
  \/ Slot_recv_handoff

SpecHandOff == InitHandOff /\ [][NextHandOff]_vars

\* what identifies the line a CSV record came from: the echoed text of a
\* control line, the mission time of a telemetry line
RowKey(row) ==
  IF IsFrame(row) THEN <<"frame", row.MISSION_TIME>> ELSE <<"echo", row.CMD_ECHO>>

LineKey(msg) ==
  IF StartsWith(msg, <<"$">>) THEN <<"echo", msg>>
  ELSE <<"frame", IF Len(Split(msg, ",")) >= 2 THEN Split(msg, ",")[2] ELSE S_NONE>>

\* the sink's content
SinkData(s) == IF s.outfile = None THEN <<>> ELSE s.outfile.data

\* what the lines leave when each is handled once and in order of arrival:
\* a line goes to the sink while the upload is active, which the begin line
\* starts and the end line stops; any other line that is not blank leaves
\* one CSV record
RECURSIVE InOrder(_, _)
InOrder(lines, acc) ==
  IF lines = <<>> THEN acc
  ELSE LET msg == Strip(Head(lines))
       IN  InOrder(Tail(lines),
             IF acc.active
             THEN [acc EXCEPT !.sink = Append(@, msg \o <<"\n">>),
                              !.active = ~Contains(msg, S_LOGFILE_END)]
             ELSE IF msg = <<>> THEN acc
             ELSE IF StartsWith(msg, <<"$">>) /\ Contains(msg, S_LOGFILE_BEGIN)
             THEN [acc EXCEPT !.sink = <<msg \o <<"\n">>>>, !.active = TRUE]
             ELSE [acc EXCEPT !.keys = Append(@, LineKey(msg))])

\* a is the beginning of b
IsPrefix(a, b) == Len(a) <= Len(b) /\ SubSeq(b, 1, Len(a)) = a

\* the CSV records the step has written, by their keys
NewKeys ==
  LET new == SubSeq(app'.csv_file, Len(app.csv_file) + 1, Len(app'.csv_file))
  IN  [i \in 1..Len(new) |-> RowKey(new[i])]

\* the step has left what InOrder leaves of lines, and then at most one
\* record more
Handled(lines) ==
  LET e == InOrder(lines, [keys |-> <<>>, sink |-> SinkData(app),
                           active |-> app.write_to_logfile # 0])
  IN  /\ IsPrefix(e.keys, NewKeys)
      /\ Len(NewKeys) <= Len(e.keys) + 1
      /\ SinkData(app') = e.sink

\* C19: a recv_data step handles each line of its burst once and in order
\* of arrival: the new CSV records are those of the lines routed to
\* process_data, the sink holds the lines routed to it, in order, and a begin
\* line has taken effect when the line after it is routed; no line stays
\* behind: if the handling of a line raised, that line was the last of the
\* burst and the lines before it were handled
C19_EachLineOnceInOrder ==
  [][(last'.op = "recv_data" /\ app.fault = "none") =>
       LET lines == last'.arg
       IN  IF app'.fault = "none"
           THEN /\ Handled(lines)
                /\ Len(NewKeys) = Len(InOrder(lines, [keys |-> <<>>, sink |-> <<>>,
                                      active |-> app.write_to_logfile # 0]).keys)
                /\ (app'.write_to_logfile # 0) =
                     InOrder(lines, [keys |-> <<>>, sink |-> <<>>,
                                     active |-> app.write_to_logfile # 0]).active
           ELSE /\ Handled(SubSeq(lines, 1, Len(lines) - 1))
                /\ app'.recveived_data = Strip(lines[Len(lines)])]_vars

(***************************************************************************)
(* The buffer of a plotter with one line                                   *)
(***************************************************************************)
\* the steps explored from the monitoring station
MaxWindowSteps == 5

InitWindow ==
  /\ app = Monitoring
  /\ now = 1
  /\ dialog = "none"
  /\ last = NoInput
  /\ fuel = [on |-> TRUE, left |-> MaxWindowSteps]

Slot_recv_window == Recv({<<L_TEL>>, <<L_TELB>>})

NextWindow ==
  \/ Slot_recv_window
  \/ Click_command

SpecWindow == InitWindow /\ [][NextWindow]_vars

\* the altitudes of the last n telemetry records, as the CSV holds them
LastAltitudes(n) ==
  LET frames == SelectSeq(app.csv_file, IsFrame)
  IN  [i \in 1..n |-> frames[Len(frames) - n + i].ALTITUDE]

\* the buffer d of capacity c after the n values vals, given as their str():
\* c - n zeros and then the values, or the last c of the values
HoldsLast(d, c, n, vals) ==
  /\ Len(d) = c
  /\ \A i \in 1..c :
       IF i <= c - n THEN d[i] = Zero
       ELSE PyStrOf(d[i]) = vals[n - c + i]

\* C20: the Altitude plotter has had one update for each telemetry line
\* received since the station started or the plotters were last reset, which
\* is what the receive counter counts; after n updates its buffer has
\* timewindow entries: timewindow - n zeros and the n values in order of
\* arrival, or the last timewindow of them when n >= timewindow
C20_BufferHoldsLast ==
  app.fault = "none" =>
    HoldsLast(app.plotters[IdxAltitude].databuffer,
              app.plotters[IdxAltitude].timewindow,
              app.packet_recv_count,
              LastAltitudes(app.packet_recv_count))

\* the plotters were reset and more lines than the buffer holds have come
\* since, not all with the same altitude
C20_Witness ==
  /\ last.op = "recv_data"
  /\ app.fault = "none"
  /\ Len(app.serial.written) = 1
  /\ app.packet_recv_count = TimeWindow + 1
  /\ app.plotters[IdxAltitude].databuffer[1] #
       app.plotters[IdxAltitude].databuffer[TimeWindow]


(***************************************************************************)
(* The plotters over a run of frames and resets                            *)
(***************************************************************************)
\* a telemetry line that ends after ACCEL_R
L_ACC == <<"3", "1", "1", "4", ",", "w", ",", "3", ",", "F", ",", "S", ",", "3", ".", "5", ",", "2", ",", "3", ",", "4", ",", "1", ",", "2", ",", "3", ",", "7">> \o <<"\n">>

PlotLines == {L_TEL, L_ACC, L_WIDE}

\* the steps explored from the monitoring station
MaxPlotSteps == 4

InitPlot ==
  /\ app = Monitoring
  /\ now = 1
  /\ dialog = "none"
  /\ last = NoInput
  /\ fuel = [on |-> TRUE, left |-> MaxPlotSteps]

Slot_recv_plot == Recv({<<l>> : l \in PlotLines})

NextPlot ==
  \/ Tick
  \/ Slot_recv_plot
  \/ Click_command

SpecPlot == InitPlot /\ [][NextPlot]_vars

\* every slot of the buffer d holds v
AllAre(d, v) == \A k \in 1..Len(d) : d[k] = v

\* the value buffers of p after a reset of q
ResetBuffers(p, q) ==
  CASE q.kind = "DynamicPlotter" ->
         Len(p.databuffer) = q.timewindow /\ AllAre(p.databuffer, Zero)
    [] q.kind = "DynamicPlotter_MultiLine" ->
         \A c \in 1..q.num_lines :
           Len(p.databuffer[c]) = q.timewindow /\ AllAre(p.databuffer[c], Zero)
    [] q.kind = "DynamicPlotter_2d" ->
         /\ Len(p.databuffer_x) = q.timewindow
         /\ Len(p.databuffer_y) = q.timewindow
         /\ AllAre(p.databuffer_x, q.databuffer_x[Len(q.databuffer_x)])
         /\ AllAre(p.databuffer_y, q.databuffer_y[Len(q.databuffer_y)])

\* the step is the first update of plotter i since it was made or reset
FirstUpdate(i) ==
  /\ last'.op = "recv_data"
  /\ app.plotters[i].last_time = None
  /\ app'.plotters[i].last_time # None

\* C21: the reset that a sent CX,ON makes leaves zeros in every buffer of the
\* plotters over time and the last position before the reset in every slot
\* of the plotter of positions, whatever was plotted before; the first
\* update after it leaves the newest time value where it was
C21_ResetContents ==
  [][/\ SentTransmissionOn =>
          \A i \in 1..Len(app.plotters) : ResetBuffers(app'.plotters[i], app.plotters[i])
     /\ \A i \in 1..Len(app.plotters) \ {IdxGPS} :
          FirstUpdate(i) =>
            app'.plotters[i].x[Len(app'.plotters[i].x)] =
              app.plotters[i].x[Len(app.plotters[i].x)]]_vars

\* a frame with a position was plotted, the transmission was started again,
\* time went on and a frame came: the position is the one from before the
\* reset and the newest time value is the 0 of the reset
C21_Witness ==
  /\ last.op = "recv_data"
  /\ last.arg = <<L_TEL>>
  /\ app.fault = "none"
  /\ now = 2
  /\ Len(app.serial.written) = 1
  /\ app.packet_recv_count = 1
  /\ AllAre(app.plotters[IdxGPS].databuffer_x, PyFloat(3815, 2))
  /\ app.plotters[IdxAltitude].last_time = PyInt(2)
  /\ app.plotters[IdxAltitude].x[TimeWindow] = 0


\* the step is recv_data with the one telemetry line l, handled to its end
Plotted(l) ==
  /\ app.fault = "none"
  /\ app'.fault = "none"
  /\ last'.op = "recv_data"
  /\ last'.arg = <<l>>

\* the time axis x2 is x shifted left by one slot
ShiftedOnce(x2, x) == Len(x2) = Len(x) /\ SubSeq(x2, 1, Len(x) - 1) = Tail(x)

\* channel c of the Accel plotter after the line l: ACCEL_R, ACCEL_P and
\* ACCEL_Y are the fields 13 to 15; a channel whose field the line lacks is
\* as it was, the others have lost their oldest sample and hold the field's
\* value as their newest
AccelChannel(l, c) ==
  LET old == app.plotters[IdxAccel].databuffer[c]
      new == app'.plotters[IdxAccel].databuffer[c]
  IN  IF Len(FieldsOf(l)) < 12 + c THEN new = old
      ELSE /\ Len(new) = Len(old)
           /\ SubSeq(new, 1, Len(old) - 1) = Tail(old)
           /\ PyEq(new[Len(new)], ParseInt(FieldsOf(l)[12 + c]).val)

\* C22: an update of the plotter with three lines leaves the buffer of a
\* channel whose value is None unchanged and appends one sample to each
\* other channel; the time axis the channels share shifts by one slot in
\* every update, also when all three values are None
C22_NoneChannelKept ==
  [][\A l \in PlotLines :
       Plotted(l) =>
         /\ \A c \in 1..3 : AccelChannel(l, c)
         /\ ShiftedOnce(app'.plotters[IdxAccel].x, app.plotters[IdxAccel].x)
         /\ ShiftedOnce(app'.plotters[IdxMag].x, app.plotters[IdxMag].x)]_vars

\* a line with ACCEL_R alone, after a full one: the first channel holds both
\* values and the other two the one of the full line, still in the last slot
C22_Witness ==
  /\ last.op = "recv_data"
  /\ last.arg = <<L_ACC>>
  /\ app.fault = "none"
  /\ app.packet_recv_count = 2
  /\ app.plotters[IdxAccel].databuffer[1][TimeWindow] = PyInt(7)
  /\ app.plotters[IdxAccel].databuffer[1][TimeWindow - 1] = PyInt(1)
  /\ app.plotters[IdxAccel].databuffer[2][TimeWindow] = PyInt(1)
  /\ app.plotters[IdxAccel].databuffer[2][TimeWindow - 1] = Zero


\* channel c of the Accel plotter holds a sample in its newest slot, put
\* there by an earlier update together with the newest time value, and the
\* line l has no value for the channel
KeptSample(l, c) ==
  /\ Plotted(l)
  /\ Len(FieldsOf(l)) < 12 + c
  /\ app.plotters[IdxAccel].databuffer[c][TimeWindow] # Zero

\* C23: a sample stays at the slot of the time value of the update that
\* appended it: when an update appends nothing to a channel, the samples of
\* the channel have not moved, and the time value at the slot of its newest
\* sample is the one that was written with it
C23_AxisAligned ==
  [][\A l \in PlotLines : \A c \in 1..3 :
       KeptSample(l, c) =>
         app'.plotters[IdxAccel].x[TimeWindow] = app.plotters[IdxAccel].x[TimeWindow]]_vars

\* the time values an update writes: elapsed is the time since the last
\* update of the plotter p, 0 for the first one
Elapsed(p) == IF p.last_time = None THEN 0 ELSE now - p.last_time.v

Advanced(p2, p) ==
  /\ ShiftedOnce(p2.x, p.x)
  /\ p2.x[Len(p2.x)] = p.x[Len(p.x)] + Elapsed(p)
  /\ p2.x[Len(p2.x)] >= p.x[Len(p.x)]

\* C24: every update of the Altitude plotter and of the Gyro plotter shifts
\* the time axis by one slot and writes, as its newest value, the value that
\* was the newest plus the time since the plotter's last update, or plus 0
\* when it is the first update since the plotter was made or reset; the
\* values written do not decrease
C24_AxisAdvance ==
  [][\A l \in PlotLines :
       Plotted(l) =>
         /\ Advanced(app'.plotters[IdxAltitude], app.plotters[IdxAltitude])
         /\ Advanced(app'.plotters[IdxGyro], app.plotters[IdxGyro])]_vars

\* two frames with a tick of the clock between them: the newest time value
\* is the elapsed time, over the 0 the first frame wrote
C24_Witness ==
  /\ last.op = "recv_data"
  /\ app.fault = "none"
  /\ now = 2
  /\ app.packet_recv_count = 2
  /\ app.plotters[IdxAltitude].x[TimeWindow] = 1
  /\ app.plotters[IdxAltitude].x[TimeWindow - 1] = 0
  /\ app.plotters[IdxGyro].x[TimeWindow] = 1


(***************************************************************************)
(* The lines of the router, one by one                                     *)
(***************************************************************************)
\* commas with white space between them
L_COMMA_WS == <<",", " ", ",">> \o <<"\n">>

\* the status message with a bracket in the middle of its text
L_STATUS == <<"$", "M", "S", "G", ":", "S", "t", "a", "t", "u", "s", " ", "u", "p", "d", "a", "t", "e", " ", "{", "S", "I", "M", "|", "D", "E", "S", "C", "E", "N", "T", "}", " ", "e", "x", "t", "r", "a", " ", "t", "e", "x", "t">> \o <<"\n">>

\* lines that are empty once commas and white space are taken out
EmptyLines == {L_EMPTY, L_COMMAS, L_COMMA_WS}

RouterLines == EmptyLines \cup {L_TEL, L_BADID, L_MSG, L_NOMSG, L_STATUS, L_BEGIN}

Slot_recv_lines == Recv({<<l>> : l \in RouterLines})

NextLines ==
  \/ Tick
  \/ Slot_recv_lines

SpecLines == InitRouter /\ [][NextLines]_vars

\* C25: a line that is empty, or empty after commas and white space are
\* stripped, is dropped silently: nothing is logged, no record is written,
\* no plotter is updated and no exception is raised
C25_EmptyDropped ==
  [][Routed(EmptyLines) =>
       /\ app'.fault = "none"
       /\ app'.gui_log = app.gui_log
       /\ app'.csv_file = app.csv_file
       /\ app'.plotters = app.plotters]_vars


\* the telemetry records among the rows that the step appends to the CSV file
NewFrames ==
  {i \in (Len(app.csv_file) + 1)..Len(app'.csv_file) : IsFrame(app'.csv_file[i])}

\* C26: the receive counter goes up by one for each telemetry frame that is
\* decoded and recorded, and by nothing else: a line that yields no frame
\* (comma-only, malformed, control, consumed by an upload) leaves it unchanged
C26_CountsFrames ==
  [][(app.fault = "none" /\ last'.op = "recv_data") =>
       app'.packet_recv_count - app.packet_recv_count = Cardinality(NewFrames)]_vars


S_UNEXPECTED == <<"(", "U", "N", "E", "X", "P", "E", "C", "T", "E", "D", " ", "F", "O", "R", "M", "A", "T", ")", ":">>

\* the step has appended one log entry, of the control-line form, with text
LoggedText(text) ==
  /\ Len(app'.gui_log) = Len(app.gui_log) + 1
  /\ app'.gui_log[Len(app'.gui_log)].fmt = "-> {}"
  /\ app'.gui_log[Len(app'.gui_log)].arg = text

\* C27: a control line without the MSG: marker is handled without error and
\* logged as "(UNEXPECTED FORMAT):" followed by the whole line
C27_UnexpectedFormat ==
  [][Routed({L_NOMSG}) =>
       /\ app'.fault = "none"
       /\ LoggedText(S_UNEXPECTED \o Strip(L_NOMSG))]_vars


S_DESCENT == <<"D", "E", "S", "C", "E", "N", "T">>

\* the text the log shows for L_STATUS: the bracket is taken out and the
\* space on each side of it stays
S_STATUS_TEXT == <<"S", "t", "a", "t", "u", "s", " ", "u", "p", "d", "a", "t", "e", " ", " ", "e", "x", "t", "r", "a", " ", "t", "e", "x", "t">>

\* the same text with one space between the words
S_STATUS_SINGLE == <<"S", "t", "a", "t", "u", "s", " ", "u", "p", "d", "a", "t", "e", " ", "e", "x", "t", "r", "a", " ", "t", "e", "x", "t">>

\* the mode and the state of L_STATUS have been taken over
StatusTaken ==
  /\ app'.fault = "none"
  /\ app'.cansat_mode = S_SIM
  /\ app'.label_remote_mode = S_SIM
  /\ app'.label_remote_state = S_DESCENT

\* C28 as stated: "$MSG:Status update {SIM|DESCENT} extra text" yields mode
\* SIM, state DESCENT and the log text "Status update extra text", the words
\* one space apart
C28_SingleSpace ==
  [][Routed({L_STATUS}) => (StatusTaken /\ LoggedText(S_STATUS_SINGLE))]_vars

\* C28: "$MSG:Status update {SIM|DESCENT} extra text" yields mode SIM, state
\* DESCENT and the log text with the bracket removed and both spaces around
\* it kept: "Status update  extra text"
C28_BracketRemoved ==
  [][Routed({L_STATUS}) => (StatusTaken /\ LoggedText(S_STATUS_TEXT))]_vars

C28_Witness ==
  /\ last.op = "recv_data"
  /\ last.arg = <<L_STATUS>>
  /\ app.fault = "none"
  /\ app.cansat_mode = S_SIM
  /\ app.label_remote_state = S_DESCENT
  /\ app.gui_log[Len(app.gui_log)].arg = S_STATUS_TEXT


\* the rows the step appends to the CSV file
NewRows == SubSeq(app'.csv_file, Len(app.csv_file) + 1, Len(app'.csv_file))

\* msg is a control line that process_data echoes
IsEchoed(msg) == StartsWith(msg, <<"$">>) /\ ~Contains(msg, S_LOGFILE_BEGIN)

\* the step has written the echo record of l and no other record
EchoOnly(l) ==
  /\ Len(app'.csv_file) = Len(app.csv_file) + 1
  /\ NewRows = <<EchoRow(Strip(l))>>

\* the step has written no echo record: the structured record of the frame
\* if the line decodes, no record if it does not
NoEcho ==
  /\ \A i \in 1..Len(NewRows) : IsFrame(NewRows[i])
  /\ Len(NewRows) = (IF app'.packet_recv_count > app.packet_recv_count
                        /\ app'.fault = "none"
                        /\ app'.plotters # app.plotters
                     THEN 1 ELSE 0)

\* C29 as stated: every telemetry line routed outside an upload, decodable
\* or not, leaves exactly one echo record that holds only the line, next to
\* the structured record of a decoded frame
C29_TelemetryEchoed ==
  [][\A l \in RouterLines :
       (Routed({l}) /\ Strip(l) # <<>> /\ ~StartsWith(Strip(l), <<"$">>)) =>
         \E i \in 1..Len(NewRows) : NewRows[i] = EchoRow(Strip(l))]_vars

\* C29: every control line routed outside an upload, the begin line of an
\* upload apart, leaves exactly one echo record that holds only the line,
\* whether or not the rest of its handling succeeds; a telemetry line leaves
\* no echo record, only the structured record when it decodes
C29_ControlEchoed ==
  [][\A l \in RouterLines :
       Routed({l}) =>
         IF IsEchoed(Strip(l)) THEN EchoOnly(l) ELSE NoEcho]_vars

C29_Witness ==
  /\ last.op = "recv_data"
  /\ last.arg = <<L_NOMSG>>
  /\ app.fault = "AttributeError"
  /\ app.csv_file[Len(app.csv_file)] = EchoRow(Strip(L_NOMSG))


\* self.__last_gyro_r, __last_gyro_p and __last_gyro_y of s
LastGyro(s) == <<s.last_gyro_r, s.last_gyro_p, s.last_gyro_y>>

\* GYRO_R, GYRO_P and GYRO_Y are the fields 10 to 12 of a telemetry line
GyroOf(l, c) == ParseInt(FieldsOf(l)[9 + c]).val

\* the newest sample of channel c of the Gyro Diff plotter after the step
NewestGyroDiff(c) == app'.plotters[IdxGyroDiff].databuffer[c][TimeWindow]

\* C30: for every telemetry frame the gyro rate-of-change is, per axis, the
\* frame's gyro value minus that of the previous frame, with 0 as the
\* previous value for the first frame of a session (the receive counter is 0:
\* after start-up and after each CX,ON); the stored previous value is the
\* frame's value after the frame
C30_GyroRate ==
  [][\A l \in {L_TEL, L_WIDE} :
       Plotted(l) =>
         \A c \in 1..3 :
           /\ PyEq(NewestGyroDiff(c),
                   PySub(GyroOf(l, c),
                         IF app.packet_recv_count = 0 THEN Zero
                         ELSE LastGyro(app)[c]))
           /\ PyEq(LastGyro(app')[c], GyroOf(l, c))]_vars


(***************************************************************************)
(* The operating mode                                                      *)
(***************************************************************************)
\* C31: in every reachable state the operating mode is FLIGHT or SIM,
\* whatever control lines were received, brackets with other mode text
\* included
C31_ModeFlightOrSim == app.cansat_mode \in {S_FLIGHT, S_SIM}

\* C35: in every reachable state in which the SIMP timer runs the operating
\* mode is SIM: a mode update to another mode during a playback does not
\* leave the playback running
C35_PlaybackOnlyInSim == app.simp_timer.active => app.cansat_mode = S_SIM


(***************************************************************************)
(* The command groups                                                      *)
(***************************************************************************)
\* the steps explored from the start of the application
MaxGroupSteps == 5

InitGroups ==
  /\ app = AppInit
  /\ now = 1
  /\ dialog = "none"
  /\ last = NoInput
  /\ fuel = [on |-> TRUE, left |-> MaxGroupSteps]

NextGroups ==
  \/ Click_group
  \/ Click_refresh_ports
  \/ Select_port

SpecGroups == InitGroups /\ [][NextGroups]_vars

\* the control list of the group g
ButtonsOf(g) ==
  CASE g = "MAIN"       -> buttons_main
    [] g = "ADVANCED"   -> buttons_adv
    [] g = "TELEMETRY"  -> buttons_telemetry
    [] g = "MODE"       -> buttons_mode
    [] g = "SENSORS"    -> buttons_sensor
    [] g = "CONNECTION" -> buttons_connection

GroupNames == {"MAIN", "ADVANCED", "TELEMETRY", "MODE", "SENSORS", "CONNECTION"}

\* the step is a click on a button that opens the group g
Entered(g) ==
  /\ last'.op = "command_group_change_buttons"
  /\ last'.arg = <<g>>

\* C32: with Main shown at the start, after every sequence of clicks on
\* visible buttons the visible controls are the control list of one group:
\* entering a group other than Main hides Main's controls and shows that
\* group's, entering Main hides the controls of the group that was active
\* and shows Main's
C32_OneGroupVisible ==
  [][/\ \E g \in GroupNames : app'.visible = ButtonsOf(g)
     /\ \A g \in GroupNames \ {"MAIN"} :
          Entered(g) =>
            /\ app.visible = buttons_main
            /\ app'.visible = ButtonsOf(g)
            /\ app'.CURRENT_CMD_WINDOW = g
     /\ Entered("MAIN") =>
          /\ app.visible = ButtonsOf(app.CURRENT_CMD_WINDOW)
          /\ app.visible \ app'.visible = ButtonsOf(app.CURRENT_CMD_WINDOW)
          /\ app'.visible = buttons_main]_vars

\* back in Main from the sensor group, entered after another group was left
C32_Witness ==
  /\ last.op = "command_group_change_buttons"
  /\ last.arg = <<"MAIN">>
  /\ app.CURRENT_CMD_WINDOW = "SENSORS"
  /\ app.visible = buttons_main
  /\ fuel.left = MaxGroupSteps - 4


(***************************************************************************)
(* The team id of the lines sent                                           *)
(***************************************************************************)
\* the station in SIM mode, the port open, the advanced group shown
SimAdvanced ==
  command_group_change_buttons(
    command_group_change_buttons(SimReady, "MAIN", <<>>), "ADVANCED", <<>>)

\* the steps explored from there
MaxTeamSteps == 5

InitTeam ==
  /\ app = SimAdvanced
  /\ now = 1
  /\ dialog = "none"
  /\ last = NoInput
  /\ fuel = [on |-> TRUE, left |-> MaxTeamSteps]

NextTeam ==
  \/ Slot_recv_simp_begin
  \/ Timer_send_simp_data
  \/ Edit_field
  \/ Click_group
  \/ Click_command
  \/ Click_confirmed
  \/ Answer

SpecTeam == InitTeam /\ [][NextTeam]_vars

\* the team ids the station holds in a run: the one it starts with and the
\* ones the operator enters
HeldIds == {AppInit.TEAM_ID} \cup {ParseInt(t).val.v : t \in TeamIdTexts}

\* line begins with "CMD,", the team id and a comma
BeginsWithId(line, id) == StartsWith(line, S_CMD \o IntStr(id) \o <<",">>)

\* line ends with a newline and holds no other
OneNewline(line) ==
  /\ Len(line) > 0
  /\ \A i \in 1..Len(line) : (line[i] = "\n") <=> (i = Len(line))

\* C33: every line a command hands to the port begins with "CMD,", a team
\* id and a comma, and ends with exactly one newline; the lines of the SIMP
\* script are among them
C33_CommandFormat ==
  \A i \in 1..Len(app.serial.written) :
    /\ \E id \in HeldIds : BeginsWithId(app.serial.written[i], id)
    /\ OneNewline(app.serial.written[i])

\* a SIMP line and a confirmed command were sent, the team id edited between
C33_Witness ==
  /\ Len(app.serial.written) = 2
  /\ CommandVerb(app.serial.written[1]) = CommandVerb(ScriptLines[1] \o <<"\n">>)
  /\ BeginsWithId(app.serial.written[1], AppInit.TEAM_ID)
  /\ CommandVerb(app.serial.written[2]) = S_GTLOGS
  /\ app.TEAM_ID # AppInit.TEAM_ID
  /\ BeginsWithId(app.serial.written[2], app.TEAM_ID)

\* C38: every line written to the port, the lines of the SIMP script
\* included, carries the team id the station holds when the line is sent:
\* after team_id_edited no later line is sent with the old id
C38_ActiveTeamId ==
  [][\A i \in 1..Len(NewlyWritten) : BeginsWithId(NewlyWritten[i], app'.TEAM_ID)]_vars


(***************************************************************************)
(* The SIMP cursor                                                         *)
(***************************************************************************)
\* the step is a tick of the SIMP timer
Ticked == last'.op = "send_simp_data"

\* C36: each playback sends each line of the script once: however many
\* SimpBegin lines were received, a tick sends the script line at the cursor,
\* one of the n lines of the file, and never a line left from an earlier load
C36_ScriptLinesOnly ==
  [][(Ticked /\ Len(NewlyWritten) > 0) =>
       /\ app.current_simp_idx < Len(ScriptLines)
       /\ NewlyWritten = <<ScriptLines[app.current_simp_idx + 1] \o <<"\n">>>>]_vars

\* C37 as stated: the cursor moves only past a line that was written to the
\* port: a tick with the port closed, or whose write fails, consumes no line
C37_CursorFollowsWrites ==
  [][Ticked =>
       app'.current_simp_idx - app.current_simp_idx = Len(NewlyWritten)]_vars

\* the step has logged one error and left the port closed
SendFailed ==
  /\ NewlyWritten = <<>>
  /\ ~app'.serial.open
  /\ Len(app'.gui_log) = Len(app.gui_log) + 1
  /\ app'.gui_log[Len(app'.gui_log)].color = "red"

\* C37: the cursor moves by one in every tick that finds a script line at
\* the cursor, written or not: the line is written when the port is open and
\* the write succeeds; with the port closed, or when the write fails, one
\* error is logged and the line is consumed unsent.  A tick that finds no
\* line stops the timer and leaves the cursor
C37_CursorFollowsTicks ==
  [][Ticked =>
       IF app.current_simp_idx < Len(app.simp_data)
       THEN /\ app'.current_simp_idx = app.current_simp_idx + 1
            /\ app'.simp_timer = app.simp_timer
            /\ \/ /\ app.serial.open
                  /\ NewlyWritten =
                       <<app.simp_data[app.current_simp_idx + 1] \o <<"\n">>>>
               \/ SendFailed
            /\ ~app.serial.open => SendFailed
       ELSE /\ app'.current_simp_idx = app.current_simp_idx
            /\ ~app'.simp_timer.active
            /\ NewlyWritten = <<>>]_vars

\* two ticks after the port was closed: two lines consumed, none written
C37_Witness ==
  /\ last.op = "send_simp_data"
  /\ ~app.serial.open
  /\ app.simp_timer.active
  /\ app.current_simp_idx = 2
  /\ app.serial.written = <<>>


(***************************************************************************)
(* CX,ON with the port closed                                              *)
(***************************************************************************)
\* the steps explored from the monitoring station
MaxRejectSteps == 4

InitReject ==
  /\ app = Monitoring
  /\ now = 1
  /\ dialog = "none"
  /\ last = NoInput
  /\ fuel = [on |-> TRUE, left |-> MaxRejectSteps]

Slot_recv_reject == Recv({<<L_TEL>>, <<L_SIMP_SIM>>})

NextReject ==
  \/ Tick
  \/ Slot_recv_reject
  \/ Slot_handle_serial_error
  \/ Click_command

SpecReject == InitReject /\ [][NextReject]_vars

\* C39: a CX,ON refused because the port is closed leaves the session as it
\* was: the receive counter, every plotter (buffers, time axis, last_time)
\* and the SIMP state keep their values, and one error is logged
C39_RejectedStartKeeps ==
  [][(last'.op = "toggle_transmission_on" /\ ~app.serial.open) =>
       app' = update_gui_log(app, "ERROR: Open port before sending data!",
                             <<>>, "red")]_vars

\* CX,ON was refused with a frame plotted and a playback begun
C39_Witness ==
  /\ last.op = "toggle_transmission_on"
  /\ ~app.serial.open
  /\ app.packet_recv_count = 1
  /\ app.simp_timer.active
  /\ app.plotters[IdxAltitude].y[TimeWindow] # Zero
  /\ app.gui_log[Len(app.gui_log)].fmt = "ERROR: Open port before sending data!"


(***************************************************************************)
(* Windows and record of one telemetry line                                *)
(***************************************************************************)
\* the plotters that the step has changed
Replotted == {i \in 1..Len(app.plotters) : app'.plotters[i] # app.plotters[i]}

\* C34: a telemetry line is handled all or nothing: either the windows of
\* its fields are updated and one structured record is written, or no window
\* is updated and no record is written; no line leaves windows updated
\* without a record
C34_AllOrNothing ==
  [][(Routed(ShortLines \cup {L_TEL2})) =>
       \/ Replotted # {} /\ Cardinality(NewFrames) = 1
                         /\ Len(app'.csv_file) = Len(app.csv_file) + 1
       \/ Replotted = {} /\ app'.csv_file = app.csv_file]_vars

=============================================================================
